---------------------------- MODULE Spec2Model ----------------------------
(***************************************************************************)
(* A model of readgeom.py, the molecular coordinate extractor.             *)
(*                                                                         *)
(* Text is modelled character by character: a Python str is a sequence of  *)
(* one-character strings, so that splitting, stripping, pattern matching   *)
(* and number parsing are computed the way the code computes them.  The    *)
(* alphabet is ASCII; whitespace is space, tab, newline and carriage       *)
(* return.  A float is the exact decimal it denotes (see FloatValue).      *)
(***************************************************************************)
EXTENDS Integers, Sequences, FiniteSets, TLC

VARIABLES
    files,    \* the file system: path -> [exists, content, tailOK]
    debug,    \* MolecularFileParser.debug of the parser in use
    op,       \* name of the operation that ran last
    input,    \* its argument
    output,   \* the value it returned
    stderr,   \* the messages it wrote to sys.stderr, in order
    invoked,  \* the methods it called, in call order
    seen,     \* history: path -> the pairs <<debug, result>> of the calls of
              \* extract_coordinates on the path so far
    lines_read,        \* the lines of lines_in_section the loop of
                       \* _extract_from_standard_orientation has taken
    dash_line_count,   \* its counter of dash lines
    coordinates_found  \* its list of coordinates

\* the locals of the loop of _extract_from_standard_orientation
scan == <<lines_read, dash_line_count, coordinates_found>>

vars == <<files, debug, op, input, output, stderr, invoked, seen,
          lines_read, dash_line_count, coordinates_found>>

-----------------------------------------------------------------------------
(* Characters and strings *)

Chars(s) == [i \in 1..Len(s) |-> SubSeq(s, i, i)]

UpperChars == Chars("ABCDEFGHIJKLMNOPQRSTUVWXYZ")
LowerChars == Chars("abcdefghijklmnopqrstuvwxyz")
DigitChars == Chars("0123456789")

Range(f) == {f[i] : i \in DOMAIN f}

UpperSet == Range(UpperChars)
LowerSet == Range(LowerChars)
DigitSet == Range(DigitChars)
SpaceSet == {" ", "\t", "\n", "\r"}

IsUpper(c) == c \in UpperSet
IsLower(c) == c \in LowerSet
IsAlpha(c) == IsUpper(c) \/ IsLower(c)
IsDigit(c) == c \in DigitSet
IsSpace(c) == c \in SpaceSet

IndexIn(c, alphabet) == CHOOSE i \in DOMAIN alphabet : alphabet[i] = c

\* str.lower() and str.upper(), character by character
ToLower == [c \in UpperSet |-> LowerChars[IndexIn(c, UpperChars)]]
ToUpper == [c \in LowerSet |-> UpperChars[IndexIn(c, LowerChars)]]
LowerC(c) == IF IsUpper(c) THEN ToLower[c] ELSE c
UpperC(c) == IF IsLower(c) THEN ToUpper[c] ELSE c
Lower(s) == [i \in DOMAIN s |-> LowerC(s[i])]
Upper(s) == [i \in DOMAIN s |-> UpperC(s[i])]

\* the code point order of the characters of the alphabet ('-' and '.'
\* come before the digits, the digits before the upper case letters, these
\* before the lower case letters)
CodeOrder == Chars("\t\n\r !#*,-.0123456789:;=@ABCDEFGHIJKLMNOPQRSTUVWXYZ\\abcdefghijklmnopqrstuvwxyz{}")
Ord(c) == IndexIn(c, CodeOrder)

\* s < t for Python strings
RECURSIVE StrLess(_, _)
StrLess(s, t) ==
    IF t = <<>> THEN FALSE
    ELSE IF s = <<>> THEN TRUE
    ELSE IF s[1] = t[1] THEN StrLess(Tail(s), Tail(t))
    ELSE Ord(s[1]) < Ord(t[1])

\* s[i:].startswith(pat), i counted from 1
StartsWithAt(s, i, pat) ==
    /\ i >= 1
    /\ i + Len(pat) - 1 <= Len(s)
    /\ \A k \in 1..Len(pat) : s[i + k - 1] = pat[k]

\* the same, ignoring case (re.IGNORECASE on a literal)
StartsWithAtNoCase(s, i, pat) ==
    /\ i >= 1
    /\ i + Len(pat) - 1 <= Len(s)
    /\ \A k \in 1..Len(pat) : LowerC(s[i + k - 1]) = LowerC(pat[k])

\* pat in s
Contains(s, pat) == \E i \in 1..Len(s) : StartsWithAt(s, i, pat)

\* s.find(pat), counted from 1; 0 when absent
Find(s, pat) ==
    IF Contains(s, pat)
    THEN CHOOSE i \in 1..Len(s) :
            /\ StartsWithAt(s, i, pat)
            /\ \A j \in 1..(i - 1) : ~StartsWithAt(s, j, pat)
    ELSE 0

\* s.strip()
Strip(s) ==
    LET keep == {i \in 1..Len(s) : ~IsSpace(s[i])}
    IN  IF keep = {} THEN <<>>
        ELSE LET lo == CHOOSE i \in keep : \A j \in 1..(i - 1) : IsSpace(s[j])
                 hi == CHOOSE i \in keep : \A j \in (i + 1)..Len(s) : IsSpace(s[j])
             IN  SubSeq(s, lo, hi)

\* the members of a finite set of integers, in increasing order
SortedSeq(S) ==
    [k \in 1..Cardinality(S) |-> CHOOSE i \in S : Cardinality({j \in S : j < i}) = k - 1]

\* s.split(sep) for a non-empty separator: always at least one piece.
\* hits are the places of s where sep occurs; the pieces are cut at the
\* leftmost occurrences that do not overlap.
RECURSIVE SplitAt(_, _, _, _)
SplitAt(s, sep, hits, start) ==
    LET later == {h \in hits : h >= start}
    IN  IF later = {} THEN <<SubSeq(s, start, Len(s))>>
        ELSE LET h == CHOOSE x \in later : \A y \in later : x <= y
             IN  <<SubSeq(s, start, h - 1)>> \o SplitAt(s, sep, hits, h + Len(sep))

Split(s, sep) == SplitAt(s, sep, {i \in 1..Len(s) : StartsWithAt(s, i, sep)}, 1)

\* s.split(): the maximal runs of non-whitespace characters
SplitWs(s) ==
    LET firsts == SortedSeq({i \in 1..Len(s) :
                                ~IsSpace(s[i]) /\ (i = 1 \/ IsSpace(s[i - 1]))})
        lasts == SortedSeq({i \in 1..Len(s) :
                                ~IsSpace(s[i]) /\ (i = Len(s) \/ IsSpace(s[i + 1]))})
    IN  [k \in 1..Len(firsts) |-> SubSeq(s, firsts[k], lasts[k])]

\* re.sub(r'\s+', '', s)
RemoveSpace(s) == SelectSeq(s, LAMBDA c : ~IsSpace(c))

\* ''.join(parts) and sep.join(parts)
RECURSIVE Concat(_)
Concat(parts) == IF parts = <<>> THEN <<>> ELSE Head(parts) \o Concat(Tail(parts))

RECURSIVE Join(_, _)
Join(parts, sep) ==
    IF parts = <<>> THEN <<>>
    ELSE IF Len(parts) = 1 THEN parts[1]
    ELSE parts[1] \o sep \o Join(Tail(parts), sep)

Reverse(s) == [i \in 1..Len(s) |-> s[Len(s) + 1 - i]]

\* re.match(r'^[A-Za-z]+$', s); no string of the model ends in a newline
\* at this point, which is the one case where '$' matches before the end
MatchesAlpha(s) == Len(s) >= 1 /\ \A i \in 1..Len(s) : IsAlpha(s[i])

\* re.match(r'^[A-Za-z]+(?:-[A-Za-z0-9]+)?$', s)
MatchesAlphaHyphen(s) ==
    \/ MatchesAlpha(s)
    \/ \E h \in 2..(Len(s) - 1) :
          /\ s[h] = "-"
          /\ \A i \in 1..(h - 1) : IsAlpha(s[i])
          /\ \A i \in (h + 1)..Len(s) : IsAlpha(s[i]) \/ IsDigit(s[i])

-----------------------------------------------------------------------------
(* Numbers.  int(tok) and float(tok) are modelled on the tokens the        *)
(* alphabet can spell: an optional sign, decimal digits, at most one       *)
(* point, and the words inf, infinity and nan in any case.  A finite float *)
(* is the decimal it denotes, kept as num / 10^scale with no trailing      *)
(* zero in the fraction, so "0.", "0.0" and "0" are one value.             *)

DigitValues == [c \in DigitSet |-> IndexIn(c, DigitChars) - 1]
DigitVal(c) == DigitValues[c]

RECURSIVE DigitsToNat(_)
DigitsToNat(ds) ==
    IF ds = <<>> THEN 0
    ELSE 10 * DigitsToNat(SubSeq(ds, 1, Len(ds) - 1)) + DigitVal(ds[Len(ds)])

AllDigits(s) == \A i \in 1..Len(s) : IsDigit(s[i])

HasSign(tok) == Len(tok) >= 1 /\ tok[1] \in {"+", "-"}
Unsigned(tok) == IF HasSign(tok) THEN Tail(tok) ELSE tok
IsNegative(tok) == Len(tok) >= 1 /\ tok[1] = "-"

\* int(tok) raises ValueError unless tok is [+-]?digits
IntOK(tok) == Len(Unsigned(tok)) >= 1 /\ AllDigits(Unsigned(tok))
IntValue(tok) ==
    IF IsNegative(tok) THEN 0 - DigitsToNat(Unsigned(tok))
    ELSE DigitsToNat(Unsigned(tok))

\* str(n) for an int
RECURSIVE NatToStr(_)
NatToStr(n) ==
    IF n < 10 THEN <<DigitChars[n + 1]>>
    ELSE NatToStr(n \div 10) \o <<DigitChars[(n % 10) + 1]>>

IntToStr(n) == IF n < 0 THEN <<"-">> \o NatToStr(0 - n) ELSE NatToStr(n)

RECURSIVE DropTrailingZeros(_)
DropTrailingZeros(ds) ==
    IF ds # <<>> /\ ds[Len(ds)] = "0"
    THEN DropTrailingZeros(SubSeq(ds, 1, Len(ds) - 1))
    ELSE ds

NanWord == Chars("nan")
NonFiniteWords == {Chars("inf"), Chars("infinity"), NanWord}

\* the spelling of a finite decimal: digits with at most one point and at
\* least one digit
DecimalPieces(pieces) ==
    /\ Len(pieces) <= 2
    /\ \A k \in 1..Len(pieces) : AllDigits(pieces[k])
    /\ \E k \in 1..Len(pieces) : pieces[k] # <<>>

IsDecimal(body) == DecimalPieces(Split(body, <<".">>))

\* float(tok) raises ValueError unless FloatOK(tok), for tokens written
\* without exponent, underscore or surrounding space
FloatOK(tok) ==
    \/ Lower(Unsigned(tok)) \in NonFiniteWords
    \/ IsDecimal(Unsigned(tok))

\* float(tok), for a token float accepts
\* the finite value with the given sign, whole digits and fraction digits
Decimal(negative, whole, frac) ==
    [kind |-> "finite",
     num |-> IF negative THEN 0 - DigitsToNat(whole \o frac) ELSE DigitsToNat(whole \o frac),
     scale |-> Len(frac)]

DecimalOf(negative, pieces) ==
    Decimal(negative, pieces[1],
            DropTrailingZeros(IF Len(pieces) = 2 THEN pieces[2] ELSE <<>>))

FloatValue(tok) ==
    IF Lower(Unsigned(tok)) = NanWord
    THEN [kind |-> "nan", num |-> 0, scale |-> 0]
    ELSE IF Lower(Unsigned(tok)) \in NonFiniteWords
    THEN [kind |-> "inf", num |-> IF IsNegative(tok) THEN -1 ELSE 1, scale |-> 0]
    ELSE DecimalOf(IsNegative(tok), Split(Unsigned(tok), <<".">>))

IsFinite(v) == v.kind = "finite"

AtomCoordinate(element, x, y, z) == [element |-> element, x |-> x, y |-> y, z |-> z]

-----------------------------------------------------------------------------
(* Element table and line classifiers.  An Optional[AtomCoordinate] is a   *)
(* sequence: <<>> for None, <<coord>> for a coordinate.                    *)

ElementSymbols ==
    << "H", "He", "Li", "Be", "B", "C", "N", "O", "F", "Ne", "Na", "Mg", "Al",
       "Si", "P", "S", "Cl", "Ar", "K", "Ca", "Sc", "Ti", "V", "Cr", "Mn", "Fe",
       "Co", "Ni", "Cu", "Zn", "Ga", "Ge", "As", "Se", "Br", "Kr", "Rb", "Sr",
       "Y", "Zr", "Nb", "Mo", "Tc", "Ru", "Rh", "Pd", "Ag", "Cd", "In", "Sn",
       "Sb", "Te", "I", "Xe", "Cs", "Ba", "La", "Ce", "Pr", "Nd", "Pm", "Sm",
       "Eu", "Gd", "Tb", "Dy", "Ho", "Er", "Tm", "Yb", "Lu", "Hf", "Ta", "W",
       "Re", "Os", "Ir", "Pt", "Au", "Hg", "Tl", "Pb", "Bi", "Po", "At", "Rn",
       "Fr", "Ra", "Ac", "Th", "Pa", "U", "Np", "Pu", "Am", "Cm", "Bk", "Cf",
       "Es", "Fm", "Md", "No", "Lr", "Rf", "Db", "Sg", "Bh", "Hs", "Mt", "Ds",
       "Rg", "Cn", "Nh", "Fl", "Mc", "Lv", "Ts", "Og" >>

ELEMENT_MAP == [n \in 1..Len(ElementSymbols) |-> Chars(ElementSymbols[n])]

\* a variant of _get_element_symbol that reads the table one entry further
OffByOneElementSymbol(atomic_number) ==
    IF atomic_number + 1 \in DOMAIN ELEMENT_MAP
    THEN ELEMENT_MAP[atomic_number + 1]
    ELSE IntToStr(atomic_number)

\* _get_element_symbol: ELEMENT_MAP.get(atomic_number, str(atomic_number))
GetElementSymbol(atomic_number) ==
    IF atomic_number \in DOMAIN ELEMENT_MAP
    THEN ELEMENT_MAP[atomic_number]
    ELSE IntToStr(atomic_number)

\* _parse_coordinate_line
\* lines 209-223, given the parts of the line
CoordinateParts(parts) ==
    IF Len(parts) >= 6
    THEN IF IntOK(parts[2]) /\ FloatOK(parts[4]) /\ FloatOK(parts[5]) /\ FloatOK(parts[6])
         THEN <<AtomCoordinate(GetElementSymbol(IntValue(parts[2])), FloatValue(parts[4]),
                               FloatValue(parts[5]), FloatValue(parts[6]))>>
         ELSE <<>>
    ELSE <<>>

ParseCoordinateLine(line) == CoordinateParts(SplitWs(line))

\* _parse_input_coordinate_line
\* lines 237-255, given the parts of the line
InputCoordinateParts(parts) ==
    IF Len(parts) >= 4
    THEN IF ~MatchesAlpha(Strip(parts[1])) THEN <<>>
         ELSE IF FloatOK(parts[2]) /\ FloatOK(parts[3]) /\ FloatOK(parts[4])
              THEN <<AtomCoordinate(Strip(parts[1]), FloatValue(parts[2]),
                                    FloatValue(parts[3]), FloatValue(parts[4]))>>
              ELSE <<>>
    ELSE <<>>

ParseInputCoordinateLine(line) == InputCoordinateParts(SplitWs(line))

-----------------------------------------------------------------------------
(* Files.  A file is [exists, content, tailOK]: exists is whether          *)
(* read_text succeeds, tailOK whether the seek-and-read of the termination *)
(* check succeeds.                                                         *)

Newline == <<"\n">>
Backslash == Chars("\\")
DoubleBackslash == Chars("\\\\")

\* the number of bytes _check_normal_termination reads from the end
TailBytes == 1000

Min(a, b) == IF a <= b THEN a ELSE b
Max(a, b) == IF a >= b THEN a ELSE b

\* _read_file_content: None is <<>>, a content c is <<c>>
ReadFileContent(file) == IF file.exists THEN <<file.content>> ELSE <<>>

NormalTerminationText == Chars("Normal termination")

\* "Normal termination" in last_line
LastLineTerminated(lines) == Contains(lines[Len(lines)], NormalTerminationText)

\* file.seek(max(0, file_size - buffer_size)); file.read()
ContentAtEnd(content, file_size) ==
    SubSeq(content, Max(0, file_size - Min(TailBytes, file_size)) + 1, file_size)

\* a variant of _check_normal_termination that looks for the text on every
\* line of the file
AnyLineTermination(file) ==
    file.exists /\ file.tailOK /\ Contains(file.content, NormalTerminationText)

\* _check_normal_termination
CheckNormalTermination(file) ==
    IF ~(file.exists /\ file.tailOK) THEN FALSE
    ELSE LastLineTerminated(
             Split(Strip(ContentAtEnd(file.content, Len(file.content))), Newline))

-----------------------------------------------------------------------------
(* Punch string *)

PunchMarker == Chars("The archive entry for this job was punched.")

\* a variant of PunchScan that, once collecting, passes over a line without
\* a backslash
RECURSIVE PunchScanPastPlainLines(_, _, _, _)
PunchScanPastPlainLines(lines, i, punch_lines, found_punch_start_delimiter) ==
    IF i < 1 THEN punch_lines
    ELSE IF Strip(lines[i]) = <<>>
    THEN IF found_punch_start_delimiter THEN punch_lines
         ELSE PunchScanPastPlainLines(lines, i - 1, punch_lines, FALSE)
    ELSE IF Contains(lines[i], Backslash)
    THEN PunchScanPastPlainLines(lines, i - 1, Append(punch_lines, Strip(lines[i])), TRUE)
    ELSE PunchScanPastPlainLines(lines, i - 1, punch_lines, found_punch_start_delimiter)

\* the reversed loop of _find_punch_string over lines[1..i], i going down;
\* the result is punch_lines, in the order appended (bottom-up)
RECURSIVE PunchScan(_, _, _, _)
PunchScan(lines, i, punch_lines, found_punch_start_delimiter) ==
    IF i < 1 THEN punch_lines
    ELSE LET line == Strip(lines[i])
         IN  IF line = <<>>
             THEN IF found_punch_start_delimiter THEN punch_lines
                  ELSE PunchScan(lines, i - 1, punch_lines, found_punch_start_delimiter)
             ELSE IF Contains(line, Backslash)
             THEN PunchScan(lines, i - 1, Append(punch_lines, line), TRUE)
             ELSE IF found_punch_start_delimiter THEN punch_lines
             ELSE PunchScan(lines, i - 1, punch_lines, found_punch_start_delimiter)

\* _find_punch_string: None is <<>>, a punch string s is <<s>>
\* lines 179-184, given punch_lines as the loop left it
PunchStringOf(punch_lines) ==
    IF punch_lines = <<>> THEN <<>> ELSE <<Concat(Reverse(punch_lines))>>

\* lines 158-184, given the lines before the marker
PunchStringBefore(lines_before_marker) ==
    PunchStringOf(PunchScan(lines_before_marker, Len(lines_before_marker), <<>>, FALSE))

\* a variant of FindPunchString that takes the text before the last marker
FindPunchStringLastMarker(content) ==
    IF ~Contains(content, PunchMarker) THEN <<>>
    ELSE PunchStringBefore(
             Split(Strip(SubSeq(content, 1,
                                (CHOOSE i \in 1..Len(content) :
                                    /\ StartsWithAt(content, i, PunchMarker)
                                    /\ \A j \in (i + 1)..Len(content) :
                                           ~StartsWithAt(content, j, PunchMarker)) - 1)),
                   Newline))

FindPunchString(content) ==
    IF ~Contains(content, PunchMarker) THEN <<>>
    ELSE PunchStringBefore(
             Split(Strip(SubSeq(content, 1, Find(content, PunchMarker) - 1)), Newline))

\* a variant of PunchElementOK that accepts every element field
AnyElementOK(element_symbol) == TRUE

\* the element check of _extract_from_punch (lines 374-380): the entry is
\* skipped only when the broad pattern fails and the strict one fails too
PunchElementOK(element_symbol) ==
    ~(~MatchesAlphaHyphen(element_symbol) /\ ~MatchesAlpha(element_symbol))

\* one pass of the loop over atom_entries_list: the coordinate the entry
\* adds, if any
\* lines 370-389, given the parts of one entry
PunchEntryParts(parts) ==
    IF Len(parts) = 4
    THEN IF ~PunchElementOK(Strip(parts[1])) THEN <<>>
         ELSE IF FloatOK(parts[2]) /\ FloatOK(parts[3]) /\ FloatOK(parts[4])
              THEN <<AtomCoordinate(Strip(parts[1]), FloatValue(parts[2]),
                                    FloatValue(parts[3]), FloatValue(parts[4]))>>
              ELSE <<>>
    ELSE <<>>

PunchEntry(entry_str) ==
    IF entry_str = <<>> THEN <<>> ELSE PunchEntryParts(Split(entry_str, <<",">>))

RECURSIVE PunchEntries(_)
PunchEntries(atom_entries_list) ==
    IF atom_entries_list = <<>> THEN <<>>
    ELSE PunchEntry(Head(atom_entries_list)) \o PunchEntries(Tail(atom_entries_list))

\* the index, from 1, of the section holding the coordinates: punch_sections[3]
CoordinateSection == 4

\* _extract_from_punch
\* lines 350-390, given punch_sections
PunchSectionCoords(punch_sections) ==
    IF Len(punch_sections) < CoordinateSection THEN <<>>
    ELSE IF punch_sections[CoordinateSection] = <<>> THEN <<>>
    ELSE PunchEntries(Split(punch_sections[CoordinateSection], Backslash))

\* lines 337-390, given what _find_punch_string returned
PunchStringCoords(punch_string) ==
    IF punch_string = <<>> THEN <<>>
    ELSE PunchSectionCoords(Split(RemoveSpace(punch_string[1]), DoubleBackslash))

ExtractFromPunch(content) == PunchStringCoords(FindPunchString(content))

-----------------------------------------------------------------------------
(* Standard orientation *)

\* the index of the first non-whitespace character at or after i
RECURSIVE SkipSpace(_, _)
SkipSpace(s, i) == IF i <= Len(s) /\ IsSpace(s[i]) THEN SkipSpace(s, i + 1) ELSE i

\* a match of (?i)standard\s+orientation: starting at i: the index of the
\* first character after it, or 0
StandardWord == Chars("standard")
OrientationWord == Chars("orientation:")

StdOrientTail(content, after, j) ==
    IF j > after /\ StartsWithAtNoCase(content, j, OrientationWord)
    THEN j + Len(OrientationWord)
    ELSE 0

StdOrientMatchEnd(content, i) ==
    IF ~StartsWithAtNoCase(content, i, StandardWord) THEN 0
    ELSE StdOrientTail(content, i + Len(StandardWord),
                       SkipSpace(content, i + Len(StandardWord)))

\* the starts of re.finditer(pattern, content); two matches cannot overlap
StdOrientMatches(content) ==
    {i \in 1..Len(content) : StdOrientMatchEnd(content, i) # 0}

FirstOf(S) == CHOOSE i \in S : \A j \in S : i <= j
LastOf(S) == CHOOSE i \in S : \A j \in S : j <= i

HeaderKeywords ==
    {Chars("Center"), Chars("Number"), Chars("Atomic"), Chars("Coordinates"),
     Chars("Type")}

FiveDashes == Chars("-----")

\* the length a stripped line must exceed to count as a dash line
DashLineMinLen == 20

\* the test of line 294
IsDashLine(line) == Contains(line, FiveDashes) /\ Len(line) > DashLineMinLen

\* the state of the loop of _extract_from_standard_orientation before its
\* first line
StdScanStart == [dash_line_count |-> 0, coordinates_found |-> <<>>, stopped |-> FALSE]

\* a variant of StdScanLine that also parses the lines after the first dash
\* line
StdScanLineFromFirstDash(st, line) ==
    IF IsDashLine(line)
    THEN [st EXCEPT !.dash_line_count = @ + 1]
    ELSE IF line = <<>> THEN st
    ELSE IF /\ st.dash_line_count = 1
            /\ \E kw \in HeaderKeywords : Contains(line, kw)
         THEN st
    ELSE IF st.dash_line_count \in {1, 2}
         THEN [st EXCEPT !.coordinates_found = @ \o ParseCoordinateLine(line)]
    ELSE IF st.dash_line_count >= 3
         THEN [st EXCEPT !.stopped = TRUE]
    ELSE st

\* a variant of StdScanLine that goes on parsing after the third dash line
StdScanLinePastThirdDash(st, line) ==
    IF IsDashLine(line)
    THEN [st EXCEPT !.dash_line_count = @ + 1]
    ELSE IF line = <<>> THEN st
    ELSE IF /\ st.dash_line_count = 1
            /\ \E kw \in HeaderKeywords : Contains(line, kw)
         THEN st
    ELSE IF st.dash_line_count >= 2
         THEN [st EXCEPT !.coordinates_found = @ \o ParseCoordinateLine(line)]
    ELSE st

\* one pass of that loop, on one stripped line of the section
StdScanLine(st, line) ==
    IF IsDashLine(line)
    THEN [st EXCEPT !.dash_line_count = @ + 1]
    ELSE IF line = <<>> THEN st
    ELSE IF /\ st.dash_line_count = 1
            /\ \E kw \in HeaderKeywords : Contains(line, kw)
         THEN st
    ELSE IF st.dash_line_count = 2
         THEN [st EXCEPT !.coordinates_found = @ \o ParseCoordinateLine(line)]
    ELSE IF st.dash_line_count >= 3
         THEN [st EXCEPT !.stopped = TRUE]
    ELSE st

StdScanStep(st, raw_line) == StdScanLine(st, Strip(raw_line))

\* the loop over lines_in_section[i..], left by break
RECURSIVE StdScan(_, _, _)
StdScan(lines_in_section, i, st) ==
    IF i > Len(lines_in_section) \/ st.stopped THEN st
    ELSE StdScan(lines_in_section, i + 1, StdScanStep(st, lines_in_section[i]))

\* lines 283-324, given where the section starts
StdSectionCoords(content, section_start_index) ==
    StdScan(Split(SubSeq(content, section_start_index, Len(content)), Newline),
            1, StdScanStart).coordinates_found

\* a variant of LastMatchCoords that reads the section after the first match
FirstMatchCoords(content, matches) ==
    IF matches = {} THEN <<>>
    ELSE StdSectionCoords(content, StdOrientMatchEnd(content, FirstOf(matches)))

\* lines 271-324, given the starts of the matches
LastMatchCoords(content, matches) ==
    IF matches = {} THEN <<>>
    ELSE StdSectionCoords(content, StdOrientMatchEnd(content, LastOf(matches)))

\* _extract_from_standard_orientation
ExtractFromStandardOrientation(content) ==
    LastMatchCoords(content, StdOrientMatches(content))

-----------------------------------------------------------------------------
(* Gaussian input *)

\* re.match(r'^[+-]?\d+\s+[+-]?\d+\s*$', line) on a stripped line
TwoIntegers(toks) == Len(toks) = 2 /\ IntOK(toks[1]) /\ IntOK(toks[2])

IsChargeMultiplicity(line) == TwoIntegers(SplitWs(line))

\* the second loop of _extract_from_input_file, from lines[i]
RECURSIVE InputScan(_, _)
InputScan(lines, i) ==
    IF i > Len(lines) THEN <<>>
    ELSE IF Strip(lines[i]) = <<>> THEN <<>>
    ELSE IF ParseInputCoordinateLine(Strip(lines[i])) # <<>>
         THEN ParseInputCoordinateLine(Strip(lines[i])) \o InputScan(lines, i + 1)
         ELSE <<>>

\* a variant of InputLinesCoords that starts after the last charge and
\* multiplicity line
InputLinesCoordsFromLast(lines) ==
    IF \A i \in 1..Len(lines) : ~IsChargeMultiplicity(Strip(lines[i])) THEN <<>>
    ELSE InputScan(lines,
                   LastOf({i \in 1..Len(lines) : IsChargeMultiplicity(Strip(lines[i]))}) + 1)

\* _extract_from_input_file
\* lines 407-443, given the lines of the file
InputLinesCoords(lines) ==
    IF \A i \in 1..Len(lines) : ~IsChargeMultiplicity(Strip(lines[i])) THEN <<>>
    ELSE InputScan(lines,
                   FirstOf({i \in 1..Len(lines) : IsChargeMultiplicity(Strip(lines[i]))}) + 1)

ExtractFromInputFile(content) == InputLinesCoords(Split(content, Newline))

-----------------------------------------------------------------------------
(* MOLPRO *)

\* geom_block_pattern from its keyword on, tried with the keyword at k:
\* keyword \s* = \s* { [^}]* }.  The result is <<first, last>>, the indices
\* of the captured body and of the closing brace after it, or <<>>.
GeomBody(content, open) ==
    IF ~StartsWithAt(content, open, <<"{">>) THEN <<>>
    ELSE IF \A c \in (open + 1)..Len(content) : content[c] # "}" THEN <<>>
    ELSE <<open + 1, FirstOf({c \in (open + 1)..Len(content) : content[c] = "}"})>>

GeomEquals(content, eq) ==
    IF ~StartsWithAt(content, eq, <<"=">>) THEN <<>>
    ELSE GeomBody(content, SkipSpace(content, eq + 1))

GeomCoreAt(content, k, keyword) ==
    IF ~StartsWithAtNoCase(content, k, keyword) THEN <<>>
    ELSE GeomEquals(content, SkipSpace(content, k + Len(keyword)))

\* the alternation (?:geometry|geom), in its order
GeomFirstOf(first, second) == IF first # <<>> THEN first ELSE second

GeometryWord == Chars("geometry")
GeomWord == Chars("geom")

GeomMatchAt(content, k) ==
    IF ~StartsWithAtNoCase(content, k, GeomWord) THEN <<>>
    ELSE GeomFirstOf(GeomCoreAt(content, k, GeometryWord),
                     GeomCoreAt(content, k, GeomWord))

\* the bodies captured by geom_block_pattern.finditer(content) from index
\* pos on, in document order.  The optional prefix (unit, ';', spaces) of
\* the pattern can only move the start of a match to the left of its
\* keyword; it changes neither the keyword at which the first match is
\* found nor where the match ends, so the bodies are those found here.
RECURSIVE GeomBlocks(_, _)
GeomBlocksFrom(content, m) ==
    <<SubSeq(content, m[1], m[2] - 1)>> \o GeomBlocks(content, m[2] + 1)

GeomBlocksAt(content, starts) ==
    IF starts = {} THEN <<>>
    ELSE GeomBlocksFrom(content, GeomMatchAt(content, FirstOf(starts)))

GeomBlocks(content, pos) ==
    GeomBlocksAt(content, {k \in pos..Len(content) : GeomMatchAt(content, k) # <<>>})

MolproComment == {"#", "!", "*"}
MolproKeywords == {Chars("angstrom"), Chars("bohr"), Chars("au"), Chars("symmetry")}

\* one pass of the loop over geom_lines: the coordinate the line adds
MolproStrippedLine(line_stripped) ==
    IF line_stripped = <<>> \/ line_stripped[1] \in MolproComment THEN <<>>
    ELSE IF Lower(line_stripped) \in MolproKeywords \/ Contains(line_stripped, <<"=">>)
    THEN <<>>
    ELSE ParseInputCoordinateLine(line_stripped)

MolproLine(line_content) == MolproStrippedLine(Strip(line_content))

\* a variant of MolproLines that ends at the first line that gives no
\* coordinate
RECURSIVE MolproLinesUntilInvalid(_)
MolproLinesUntilInvalid(geom_lines) ==
    IF geom_lines = <<>> \/ MolproLine(Head(geom_lines)) = <<>> THEN <<>>
    ELSE MolproLine(Head(geom_lines)) \o MolproLinesUntilInvalid(Tail(geom_lines))

RECURSIVE MolproLines(_)
MolproLines(geom_lines) ==
    IF geom_lines = <<>> THEN <<>>
    ELSE MolproLine(Head(geom_lines)) \o MolproLines(Tail(geom_lines))

\* current_block_coords of one block
MolproBlockCoords(block_content_str) ==
    MolproLines(Split(Strip(block_content_str), Newline))

\* a variant of MolproScan that reads the first block and no other
FirstBlockOnly(blocks, i) ==
    IF blocks = <<>> THEN <<>> ELSE MolproBlockCoords(blocks[1])

\* a variant of MolproScan that collects the coordinates of every block
RECURSIVE AllBlocks(_, _)
AllBlocks(blocks, i) ==
    IF i > Len(blocks) THEN <<>>
    ELSE MolproBlockCoords(blocks[i]) \o AllBlocks(blocks, i + 1)

\* the loop over the matches, from blocks[i]: the first block that yields a
\* coordinate ends it
RECURSIVE MolproScan(_, _)
MolproScan(blocks, i) ==
    IF i > Len(blocks) THEN <<>>
    ELSE IF MolproBlockCoords(blocks[i]) # <<>> THEN MolproBlockCoords(blocks[i])
    ELSE MolproScan(blocks, i + 1)

\* _extract_from_molpro_file
ExtractFromMolproFile(content) == MolproScan(GeomBlocks(content, 1), 1)

-----------------------------------------------------------------------------
(* File type and the extraction coordinator *)

\* pathlib's Path.suffix: the part of the final component from its last
\* '.', when that is neither its first nor its last character
NameSuffix(name, dots) ==
    IF dots = {} THEN <<>>
    ELSE IF 1 < LastOf(dots) /\ LastOf(dots) < Len(name)
         THEN SubSeq(name, LastOf(dots), Len(name))
         ELSE <<>>

LastComponent(comps) == comps[Len(comps)]

SuffixOfName(name) == NameSuffix(name, {i \in 1..Len(name) : name[i] = "."})

PathSuffix(file_path) == SuffixOfName(LastComponent(Split(file_path, <<"/">>)))

ComSuffix == Chars(".com")
LogSuffix == Chars(".log")
MolproSuffixes == {Chars(".in"), Chars(".out")}

IsGaussianInputFile(file_path) == Lower(PathSuffix(file_path)) = ComSuffix
IsGaussianLogFile(file_path) == Lower(PathSuffix(file_path)) = LogSuffix
IsMolproFile(file_path) == Lower(PathSuffix(file_path)) \in MolproSuffixes

\* a variant of _detect_file_type that compares the suffix as it is written
DetectFileTypeCaseSensitive(file_path) ==
    IF PathSuffix(file_path) = ComSuffix THEN "gaussian_input"
    ELSE IF PathSuffix(file_path) = LogSuffix THEN "gaussian_log"
    ELSE IF PathSuffix(file_path) \in MolproSuffixes THEN "molpro"
    ELSE "unknown"

\* _detect_file_type
DetectFileType(file_path) ==
    IF IsGaussianInputFile(file_path) THEN "gaussian_input"
    ELSE IF IsGaussianLogFile(file_path) THEN "gaussian_log"
    ELSE IF IsMolproFile(file_path) THEN "molpro"
    ELSE "unknown"

\* _debug_print: the messages reach stderr only when debug is set
DebugPrint(dbg, messages) == IF dbg THEN messages ELSE <<>>

\* lines 566-568: the standard orientation alone
StandardOrientationOnly(content) ==
    [result |-> ExtractFromStandardOrientation(content),
     invoked |-> <<"_extract_from_standard_orientation">>,
     messages |-> <<"normal termination not found, using standard orientation">>]

\* lines 560-565: the punch string gave nothing
PunchFallback(content) ==
    [result |-> ExtractFromStandardOrientation(content),
     invoked |-> <<"_extract_from_punch", "_find_punch_string",
                   "_extract_from_standard_orientation">>,
     messages |->
         <<"normal termination, trying punch",
           IF FindPunchString(content) # <<>>
           THEN "punch string found but no coords parsed, trying standard orientation"
           ELSE "punch string not found, trying standard orientation">>]

\* a variant of PunchFirst that never falls back
PunchWithoutFallback(content, punch) ==
    [result |-> punch,
     invoked |-> <<"_extract_from_punch">>,
     messages |-> <<"normal termination, trying punch">>]

\* a variant of PunchFirst that runs the standard orientation strategy in
\* every case
PunchThenStandardOrientation(content, punch) ==
    [result |-> IF punch # <<>> THEN punch ELSE ExtractFromStandardOrientation(content),
     invoked |-> <<"_extract_from_punch", "_find_punch_string",
                   "_extract_from_standard_orientation">>,
     messages |-> <<"normal termination, trying punch">>]

\* lines 556-565, given what _extract_from_punch returned
PunchFirst(content, punch) ==
    IF punch # <<>>
    THEN [result |-> punch,
          invoked |-> <<"_extract_from_punch">>,
          messages |-> <<"normal termination, trying punch">>]
    ELSE PunchFallback(content)

\* a variant of GaussianLogBranch that tries the punch string whatever the
\* termination check answered
PunchAlways(content, normal_termination) ==
    PunchFirst(content, ExtractFromPunch(content))

\* the gaussian_log branch of extract_coordinates (lines 553-568), given
\* the content and the answer of the termination check
GaussianLogBranch(content, normal_termination) ==
    IF normal_termination
    THEN PunchFirst(content, ExtractFromPunch(content))
    ELSE StandardOrientationOnly(content)

FinalMessage(coordinates_extracted) ==
    IF coordinates_extracted # <<>> THEN "successfully parsed" ELSE "no coordinates"

\* what extract_coordinates returns and writes after a strategy has run:
\* the strategy's coordinates, the methods called and the messages
Outcome(dbg, coordinates_extracted, called, messages) ==
    [result |-> coordinates_extracted,
     stderr |-> DebugPrint(dbg, <<"starting extraction", "detected file type">>
                                \o messages \o <<FinalMessage(coordinates_extracted)>>),
     invoked |-> <<"_read_file_content", "_detect_file_type">> \o called]

LogOutcome(dbg, file, branch) ==
    Outcome(dbg, branch.result, <<"_check_normal_termination">> \o branch.invoked,
            (IF file.tailOK THEN <<>> ELSE <<"error checking termination">>)
            \o branch.messages)

\* a variant of Dispatch that gives every file to the MOLPRO strategy
DispatchIgnoringType(file_type, file, dbg) ==
    Outcome(dbg, ExtractFromMolproFile(file.content), <<"_extract_from_molpro_file">>, <<>>)

\* lines 550-586 of extract_coordinates, the content having been read
Dispatch(file_type, file, dbg) ==
    IF file_type = "gaussian_input"
    THEN Outcome(dbg, ExtractFromInputFile(file.content),
                 <<"_extract_from_input_file">>, <<>>)
    ELSE IF file_type = "gaussian_log"
    THEN LogOutcome(dbg, file,
                    GaussianLogBranch(file.content, CheckNormalTermination(file)))
    ELSE IF file_type = "molpro"
    THEN Outcome(dbg, ExtractFromMolproFile(file.content),
                 <<"_extract_from_molpro_file">>, <<>>)
    ELSE [result |-> <<>>,
          stderr |-> DebugPrint(dbg, <<"starting extraction", "detected file type">>)
                     \o <<"Warning: Unsupported or unrecognized file type">>,
          invoked |-> <<"_read_file_content", "_detect_file_type">>]

\* a variant of extract_coordinates whose result depends on the debug flag
ExtractNothingWhenDebugging(file_path, file, dbg) ==
    IF dbg \/ ReadFileContent(file) = <<>>
    THEN [result |-> <<>>,
          stderr |-> DebugPrint(dbg, <<"starting extraction", "error reading file">>),
          invoked |-> <<"_read_file_content">>]
    ELSE Dispatch(DetectFileType(file_path), file, dbg)

\* extract_coordinates, for the parser's debug flag dbg.  stderr holds the
\* messages of extract_coordinates, _read_file_content and
\* _check_normal_termination; the parsing methods write theirs under the
\* same flag and read nothing back.
ExtractCoordinates(file_path, file, dbg) ==
    IF ReadFileContent(file) = <<>>
    THEN [result |-> <<>>,
          stderr |-> DebugPrint(dbg, <<"starting extraction", "error reading file">>),
          invoked |-> <<"_read_file_content">>]
    ELSE Dispatch(DetectFileType(file_path), file, dbg)

-----------------------------------------------------------------------------
(* Molecular formula *)

\* lines 613-616: the symbol under which an atom is counted
NormalizeSymbol(element_symbol) ==
    IF Len(element_symbol) > 1
    THEN <<UpperC(element_symbol[1])>> \o Lower(Tail(element_symbol))
    ELSE Upper(element_symbol)

\* atom_count after the counting loop: its keys and their counts
AtomCountKeys(coordinates) ==
    {NormalizeSymbol(coordinates[i].element) : i \in 1..Len(coordinates)}

AtomCount(coordinates) ==
    [el \in AtomCountKeys(coordinates) |->
        Cardinality({i \in 1..Len(coordinates) :
                        NormalizeSymbol(coordinates[i].element) = el})]

\* preferred_order.get(el_symbol, float('inf')), inf being 2 here
PreferredOrder(el_symbol) ==
    IF el_symbol = <<"C">> THEN 0 ELSE IF el_symbol = <<"H">> THEN 1 ELSE 2

\* the order of the sort keys (preferred_order.get(el, inf), el)
SortKeyLess(a, b) ==
    \/ PreferredOrder(a) < PreferredOrder(b)
    \/ PreferredOrder(a) = PreferredOrder(b) /\ StrLess(a, b)

\* sorted(keys, key=...)
RECURSIVE SortedElements(_)
SortedElements(keys) ==
    IF keys = {} THEN <<>>
    ELSE LET least == CHOOSE a \in keys : \A b \in keys \ {a} : SortKeyLess(a, b)
         IN  <<least>> \o SortedElements(keys \ {least})

\* a variant of FormulaPart that writes every count
FormulaPartWithOne(element, count) == element \o IntToStr(count)

\* f"{element}{count if count > 1 else ''}"
FormulaPart(element, count) ==
    element \o (IF count > 1 THEN IntToStr(count) ELSE <<>>)

\* generate_formula
GenerateFormula(coordinates) ==
    IF coordinates = <<>> THEN <<>>
    ELSE LET atom_count == AtomCount(coordinates)
             sorted_elements == SortedElements(DOMAIN atom_count)
         IN  Concat([k \in 1..Len(sorted_elements) |->
                        FormulaPart(sorted_elements[k], atom_count[sorted_elements[k]])])

-----------------------------------------------------------------------------
(* Inputs: the texts the operations are applied to *)

\* the text whose lines are the given strings, each ended by a newline
Text(lines) == Concat([i \in 1..Len(lines) |-> Chars(lines[i]) \o Newline])

DashLine == " ---------------------"

\* a "Standard orientation" block with the given data lines, and whether
\* its closing dash line is there
StdBlock(data, closed) ==
    <<" Standard orientation:", DashLine, " Center Number", DashLine>>
    \o data \o (IF closed THEN <<DashLine, " 9 9 0 9. 9. 9.">> ELSE <<>>)

StdParts ==
    << <<" Entering Link 1">>,
       StdBlock(<<" 1 6 0 0. 0. 1.1", " 2 1 0 0. 0. 0.">>, TRUE),
       StdBlock(<<" 1 7 0 0. 0. 2.5">>, TRUE)
           \o StdBlock(<<" 1 8 0 0. 0. 0.96", "", " 2 1 0 0. 0. 0.">>, TRUE),
       StdBlock(<<" 1 7 0 0. 0. 2.5">>, TRUE)
           \o <<" STANDARD   orientation:", DashLine>>,
       StdBlock(<<" 1 119 0 0. 0. 1.1", " 2 X 0 0. 0. 0.", " 3 1 0 0. 0. 0.", " short">>,
                FALSE) >>

Marker == " The archive entry for this job was punched."

PunchParts ==
    << <<" no archive">>,
       <<" 1\\1\\GINC\\\\#HF\\\\T\\\\0,1\\C,0.,0.,1.1\\H,0.,0.,0.\\\\V=1\\\\@", "", Marker>>,
       <<" text\\above", " plain", " 1\\1\\GINC\\\\#HF\\\\T\\\\0,1\\C,0.,0", " .,1.1\\H,0., 0.,0.\\\\@ ",
         " end of entry", "", Marker>>,
       <<" 1\\1\\GINC\\\\#HF\\\\T\\\\\\\\V=1\\\\@", Marker>>,
       <<" 1\\1\\GINC\\\\#HF\\\\@", Marker>>,
       <<" 1\\1\\GINC\\\\#HF\\\\T\\\\0,1\\C,0.,x,1.1\\X1,0.,0.,0.\\H,0.,0.\\\\@", Marker>>,
       <<" 1\\1\\GINC\\\\#HF\\\\T\\\\0,1\\C-13,0.,0.,1.1\\H,0.,0.,0.\\C,bad,0.,0.\\\\@", Marker>>,
       <<" 1\\1\\GINC\\\\#HF\\\\T\\\\0,1\\O,0.,0.,1.1\\5,0.,0.,0.\\h,0.,0.,-0.5\\\\@", Marker>>,
       <<" nothing archived", Marker>> >>

TermParts ==
    << <<" Normal termination of Gaussian", "", " ">>,
       <<" Error termination via Lnk1e">> >>

LogContents ==
    {Text(StdParts[a] \o PunchParts[b] \o TermParts[c]) :
        a \in DOMAIN StdParts, b \in DOMAIN PunchParts, c \in DOMAIN TermParts}

MolproContents ==
    { Text(<<"memory,100,m", "geom={", "C 0. 0. 1.1", "H 0. 0. 0.", "}", "hf">>),
      Text(<<"geometry = {", "! comment", "angstrom", "X1 0. 0. 0.", "r=1.1", "}",
             "geom={", "O 0. 0. 0.96", "H 0. 0. 0.", "}">>),
      Text(<<"geom={", "C 0. 0. 1.1", "H 0. 0. 0.", "}", "geom={", "N 0. 0. 2.5", "}">>),
      Text(<<"memory,100,m", "hf">>),
      Text(<<"angstrom; GEOMETRY={", "C 0. 0. 1.1", "H 0. 0", "* note", "H 0. 0. 0.", "}">>),
      Text(<<"geom={", "symmetry", "}", "geom={", "1 0. 0. 0.", "C 0. 0. 1.1", "}",
             "geom={", "N 0. 0. 2.5", "}">>),
      Text(<<"geom={", "C 0. 0. 1.1">>) }

ComContents ==
    { Text(<<"#HF", "", "Title", "", "0 1", "C 0. 0. 1.1", "H 0. 0. 0.", "", "">>),
      Text(<<"#HF", "", "Title", "", "C 0. 0. 1.1", "H 0. 0. 0.", "">>),
      Text(<<"#HF", "", "-1 2", "C 0. 0. 1.1", "", "0 1", "N 0. 0. 2.5", "">>),
      Text(<<"0 1", "C 0. 0. 1.1", "X1 0. 0. 0.", "H 0. 0. 0.", "">>) }

Contents == LogContents \cup MolproContents \cup ComContents

\* the most tokens on a line given to the line classifiers
MaxTokens == 7

\* the most atoms in a list given to the formula generator
MaxAtoms == 3

TokenPool ==
    {Chars("C"), Chars("6"), Chars("119"), Chars("1.1"), Chars("-0.5"),
     Chars("nan"), Chars("inf"), Chars("X1")}

\* a line both classifiers accept when it is long enough: a symbol, an
\* atomic number, a type and coordinates
BaseToken(k) ==
    IF k = 1 THEN Chars("C")
    ELSE IF k = 2 THEN Chars("6")
    ELSE IF k = 3 THEN Chars("0")
    ELSE <<Chars("1.1"), Chars("-0.5"), Chars("0.")>>[(k % 3) + 1]

BaseTokens(n) == [k \in 1..n |-> BaseToken(k)]

\* token lists: a base line of up to MaxTokens tokens with any two of its
\* tokens replaced by tokens of the pool
TokenLists ==
    {<<>>} \cup
    {[[BaseTokens(n) EXCEPT ![i] = t] EXCEPT ![j] = u] :
        <<n, i, j>> \in {w \in (1..MaxTokens) \X (1..MaxTokens) \X (1..MaxTokens) :
                            w[2] <= w[1] /\ w[3] <= w[1]},
        t \in TokenPool, u \in TokenPool}

\* the lines: each token list laid out with single spaces, and with a
\* margin, tabs and a trailing space
Lines ==
    {Join(toks, <<" ">>) : toks \in TokenLists}
    \cup {<<" ", " ">> \o Join(toks, <<" ", "\t">>) \o <<" ">> : toks \in TokenLists}

FormulaSymbols ==
    {Chars("C"), Chars("H"), Chars("h"), Chars("O"), Chars("Br"), Chars("cl"), Chars("CL")}

Zero == [kind |-> "finite", num |-> 0, scale |-> 0]

RECURSIVE SeqsUpTo(_, _)
SeqsUpTo(S, n) ==
    IF n = 0 THEN {<<>>}
    ELSE SeqsUpTo(S, n - 1)
         \cup {Append(q, x) : q \in {r \in SeqsUpTo(S, n - 1) : Len(r) = n - 1}, x \in S}

CoordinateLists ==
    {[i \in 1..Len(q) |-> AtomCoordinate(q[i], Zero, Zero, Zero)] :
        q \in SeqsUpTo(FormulaSymbols, MaxAtoms)}

File(content) == [exists |-> TRUE, content |-> content, tailOK |-> TRUE]
UnseekableFile(content) == [exists |-> TRUE, content |-> content, tailOK |-> FALSE]
MissingFile == [exists |-> FALSE, content |-> <<>>, tailOK |-> FALSE]

LogPath == Chars("run/job.log")
MolproPath == Chars("mol.OUT")
MolproInputPath == Chars("mol.in")
ComPath == Chars("mol.com")
OtherPath == Chars("notes.txt")

\* the archive entry of the first job of a log of two jobs: with nitrogen,
\* or with no coordinate section
FirstArchives ==
    <<" 1\\1\\GINC\\\\#HF\\\\T\\\\0,1\\N,0.,0.,2.5\\\\@", " 1\\1\\GINC\\\\#HF\\\\@">>

\* a log of two jobs: a block with nitrogen and the first archive entry, then
\* a block and an archive entry with oxygen and hydrogen, each entry closed
\* by the marker
MultiJobLog(first) ==
    Text(StdBlock(<<" 1 7 0 0. 0. 2.5">>, TRUE)
         \o <<FirstArchives[first], "", Marker, " Normal termination of Gaussian">>
         \o StdBlock(<<" 1 8 0 0. 0. 0.96", " 2 1 0 0. 0. 0.">>, TRUE)
         \o <<" 1\\1\\GINC\\\\#HF\\\\T\\\\0,1\\O,0.,0.,0.96\\H,0.,0.,0.\\\\@", "", Marker>>
         \o TermParts[1])

\* the logs of the file systems: with no standard orientation block or
\* with two, each punch part and each ending; one that cannot be read from
\* its end; one that is missing
LogFiles ==
    {File(Text(StdParts[a] \o PunchParts[b] \o TermParts[c])) :
        a \in {1, 3}, b \in DOMAIN PunchParts, c \in DOMAIN TermParts}
    \cup {UnseekableFile(Text(StdParts[5] \o PunchParts[2] \o TermParts[1])), MissingFile}
    \cup {File(MultiJobLog(1)), UnseekableFile(MultiJobLog(1)), File(MultiJobLog(2))}

SmallMolpro == Text(<<"geom={", "N 0. 0. 2.5", "}">>)

\* the file systems a run starts from: two files each
FileSystems ==
    {(LogPath :> f) @@ (MolproPath :> File(SmallMolpro)) : f \in LogFiles}
    \cup {(ComPath :> File(c)) @@ (OtherPath :> File(c)) : c \in ComContents}
    \cup {(MolproPath :> File(m)) @@ (MolproInputPath :> File(SmallMolpro)) :
            m \in MolproContents}
    \cup {(OtherPath :> MissingFile) @@ (ComPath :> MissingFile)}
    \cup {(ComPath :> MissingFile)
            @@ (LogPath :> File(Text(StdParts[3] \o PunchParts[2] \o TermParts[1])))}

\* the paths given to the file type detection: a directory, the start of
\* a file name and its ending
PathDirs == {"", "run/", "a.log/", "x.com/b.out/"}
PathStems == {"", "job", "job.log", "mol.in.x"}
PathEndings ==
    {".com", ".COM", ".Com", ".log", ".LOG", ".lOg", ".in", ".In", ".out", ".OUT",
     ".txt", ".gjf", ".logx", ".co", ".inp", "-log", "_out", "com"}

Paths ==
    {Chars(d) \o Chars(n) \o Chars(e) : d \in PathDirs, n \in PathStems, e \in PathEndings}
    \cup {Chars(d) \o Chars(n) : d \in PathDirs, n \in PathStems \ {""}}

-----------------------------------------------------------------------------
(* The program: a parser is constructed and extract_coordinates is called  *)
(* on the files, in any order and any number of times.                     *)

Init ==
    /\ files \in FileSystems
    /\ debug = FALSE
    /\ op = "none"
    /\ input = <<>>
    /\ output = <<>>
    /\ stderr = <<>>
    /\ invoked = <<>>
    /\ seen = [p \in DOMAIN files |-> {}]
    /\ lines_read = 0
    /\ dash_line_count = 0
    /\ coordinates_found = <<>>

\* MolecularFileParser(debug=d)
NewParser(d) ==
    /\ debug # d
    /\ debug' = d
    /\ UNCHANGED <<files, op, input, output, stderr, invoked, seen>>
    /\ UNCHANGED scan

\* the state after extract_coordinates(file_path) returned r
Returned(file_path, r) ==
    /\ op' = "extract_coordinates"
    /\ input' = file_path
    /\ output' = r.result
    /\ stderr' = r.stderr
    /\ invoked' = r.invoked
    /\ seen' = [seen EXCEPT ![file_path] = @ \cup {<<debug, r.result>>}]
    /\ UNCHANGED <<files, debug>>
    /\ UNCHANGED scan

\* file_parser.extract_coordinates(file_path)
Extract(file_path) ==
    /\ file_path \in DOMAIN files
    /\ Returned(file_path, ExtractCoordinates(file_path, files[file_path], debug))

Next ==
    \/ \E d \in BOOLEAN : NewParser(d)
    \/ \E file_path \in DOMAIN files : Extract(file_path)

Spec == Init /\ [][Next]_vars

-----------------------------------------------------------------------------
(* The strategies, each applied to a content *)

NoFiles == <<>>

InitPure(inputs) ==
    /\ input \in inputs
    /\ op = "none"
    /\ output = <<>>
    /\ files = NoFiles
    /\ debug = FALSE
    /\ stderr = <<>>
    /\ invoked = <<>>
    /\ seen = <<>>
    /\ lines_read = 0
    /\ dash_line_count = 0
    /\ coordinates_found = <<>>

FromStandardOrientation ==
    /\ op' = "_extract_from_standard_orientation"
    /\ output' = ExtractFromStandardOrientation(input)
    /\ UNCHANGED <<input, files, debug, stderr, invoked, seen>>
    /\ UNCHANGED scan

FromPunch ==
    /\ op' = "_extract_from_punch"
    /\ output' = ExtractFromPunch(input)
    /\ UNCHANGED <<input, files, debug, stderr, invoked, seen>>
    /\ UNCHANGED scan

PunchString ==
    /\ op' = "_find_punch_string"
    /\ output' = FindPunchString(input)
    /\ UNCHANGED <<input, files, debug, stderr, invoked, seen>>
    /\ UNCHANGED scan

FromInputFile ==
    /\ op' = "_extract_from_input_file"
    /\ output' = ExtractFromInputFile(input)
    /\ UNCHANGED <<input, files, debug, stderr, invoked, seen>>
    /\ UNCHANGED scan

FromMolproFile ==
    /\ op' = "_extract_from_molpro_file"
    /\ output' = ExtractFromMolproFile(input)
    /\ UNCHANGED <<input, files, debug, stderr, invoked, seen>>
    /\ UNCHANGED scan

NextStrategy ==
    \/ FromStandardOrientation
    \/ FromPunch
    \/ PunchString
    \/ FromInputFile
    \/ FromMolproFile

SpecStrategy == InitPure(Contents) /\ [][NextStrategy]_vars

-----------------------------------------------------------------------------
(* The line classifiers, each applied to a line *)

InputCoordinateLine ==
    /\ op' = "_parse_input_coordinate_line"
    /\ output' = ParseInputCoordinateLine(input)
    /\ UNCHANGED <<input, files, debug, stderr, invoked, seen>>
    /\ UNCHANGED scan

CoordinateLine ==
    /\ op' = "_parse_coordinate_line"
    /\ output' = ParseCoordinateLine(input)
    /\ UNCHANGED <<input, files, debug, stderr, invoked, seen>>
    /\ UNCHANGED scan

NextLine == InputCoordinateLine \/ CoordinateLine

SpecLine == InitPure(Lines) /\ [][NextLine]_vars

-----------------------------------------------------------------------------
(* The formula generator, applied to a coordinate list *)

Formula ==
    /\ op' = "generate_formula"
    /\ output' = GenerateFormula(input)
    /\ UNCHANGED <<input, files, debug, stderr, invoked, seen>>
    /\ UNCHANGED scan

NextFormula == Formula

SpecFormula == InitPure(CoordinateLists) /\ [][NextFormula]_vars

-----------------------------------------------------------------------------
(* The file type detection, applied to a path *)

FileType ==
    /\ op' = "_detect_file_type"
    /\ output' = DetectFileType(input)
    /\ UNCHANGED <<input, files, debug, stderr, invoked, seen>>
    /\ UNCHANGED scan

NextFileType == FileType

SpecFileType == InitPure(Paths) /\ [][NextFileType]_vars

-----------------------------------------------------------------------------
(* main: one parser, and extract_coordinates and print_coordinates for     *)
(* each of the file paths in sorted order.  input is file_paths, output    *)
(* the reports printed so far, stderr and invoked those of the last call   *)
(* of extract_coordinates.                                                 *)

\* the order of two paths: that of their lists of components
RECURSIVE PartsLess(_, _)
PartsLess(a, b) ==
    IF b = <<>> THEN FALSE
    ELSE IF a = <<>> THEN TRUE
    ELSE IF Head(a) = Head(b) THEN PartsLess(Tail(a), Tail(b))
    ELSE StrLess(Head(a), Head(b))

PathLess(p, q) == PartsLess(Split(p, <<"/">>), Split(q, <<"/">>))

\* sorted(list(set(file_paths_collected)))
RECURSIVE SortedPaths(_)
SortedPaths(paths) ==
    IF paths = {} THEN <<>>
    ELSE <<CHOOSE p \in paths : \A q \in paths \ {p} : PathLess(p, q)>>
         \o SortedPaths(paths \ {CHOOSE p \in paths : \A q \in paths \ {p} : PathLess(p, q)})

\* print_coordinates with its default arguments: the summary line (atoms,
\* formula) and the coordinates listed after it
PrintCoordinates(coordinates, file_path) ==
    [file_path |-> file_path,
     atoms |-> Len(coordinates),
     formula |-> IF coordinates = <<>> THEN Chars("No coordinates found.")
                 ELSE GenerateFormula(coordinates),
     coordinates |-> coordinates]

\* a variant of LoopContinues that leaves the loop after a file that gave
\* no coordinates
LoopStopsAtFailure(reported, file_paths) ==
    /\ Len(reported) < Len(file_paths)
    /\ IF reported = <<>> THEN TRUE ELSE reported[Len(reported)].atoms > 0

\* for i, file_path in enumerate(file_paths): there is a next file
LoopContinues(reported, file_paths) == Len(reported) < Len(file_paths)

\* what extract_coordinates gives for each file of each file system and
\* each debug flag, computed once
ExtractionTable ==
    [fs \in FileSystems |->
        [p \in DOMAIN fs |-> [d \in BOOLEAN |-> ExtractCoordinates(p, fs[p], d)]]]

InitBatch ==
    /\ files \in FileSystems
    /\ debug \in BOOLEAN
    /\ op = "main"
    /\ input \in {SortedPaths(S) : S \in (SUBSET DOMAIN files) \ {{}}}
    /\ output = <<>>
    /\ stderr = <<>>
    /\ invoked = <<>>
    /\ seen = <<>>
    /\ lines_read = 0
    /\ dash_line_count = 0
    /\ coordinates_found = <<>>

\* the state after one pass of the loop, r being what extract_coordinates
\* gave for file_path
Reported(file_path, r) ==
    /\ output' = Append(output, PrintCoordinates(r.result, file_path))
    /\ stderr' = r.stderr
    /\ invoked' = r.invoked
    /\ UNCHANGED <<files, debug, op, input, seen>>
    /\ UNCHANGED scan

\* one pass of the loop of main
MainLoop ==
    /\ op = "main"
    /\ LoopContinues(output, input)
    /\ Reported(input[Len(output) + 1], ExtractionTable[files][input[Len(output) + 1]][debug])

\* return 0
MainReturn ==
    /\ op = "main"
    /\ ~LoopContinues(output, input)
    /\ op' = "exit 0"
    /\ UNCHANGED <<files, debug, input, output, stderr, invoked, seen>>
    /\ UNCHANGED scan

NextBatch == MainLoop \/ MainReturn

\* main runs to its end: it is a sequential program
SpecBatch == InitBatch /\ [][NextBatch]_vars /\ WF_vars(NextBatch)

-----------------------------------------------------------------------------
(* The termination check, applied to a file *)

TermHeads == <<" Normal termination of Gaussian 16", " Error termination via Lnk1e">>

\* the ends of a log: nothing, a last line with or without the text, blank
\* lines after it, and a line with the text above another last line
TermTails ==
    << <<>>,
       <<" Normal termination of Gaussian 16 at Fri Nov  6">>,
       <<" Error termination via Lnk1e">>,
       <<" Normal termination of Gaussian 16", "", "  ">>,
       <<" Normal termination of Gaussian 16", " Job cpu time: 0 days">> >>

\* the lengths of the text between the head and the end: none, less than
\* the bytes read from the end, and more
FillerLengths == {0, TailBytes - 30, TailBytes + 10}

FillerChars == {"x", " "}

\* a head line, then n times the character c on the same line (joined) or
\* on a line of its own, then the end
TermContent(h, n, c, joined, t) ==
    Chars(TermHeads[h]) \o (IF joined THEN <<>> ELSE Newline)
        \o [i \in 1..n |-> c] \o Newline \o Text(TermTails[t])

TermContents ==
    {TermContent(h, n, c, joined, t) :
        h \in DOMAIN TermHeads, n \in FillerLengths, c \in FillerChars,
        joined \in BOOLEAN, t \in DOMAIN TermTails}

TermFiles ==
    {File(c) : c \in TermContents} \cup {UnseekableFile(c) : c \in TermContents}
        \cup {MissingFile}

CheckTermination ==
    /\ op = "none"
    /\ op' = "_check_normal_termination"
    /\ output' = CheckNormalTermination(input)
    /\ UNCHANGED <<input, files, debug, stderr, invoked, seen>>
    /\ UNCHANGED scan

NextTermination == CheckTermination

SpecTermination == InitPure(TermFiles) /\ [][NextTermination]_vars

-----------------------------------------------------------------------------
(* The loop of _extract_from_standard_orientation, line by line *)

\* what follows the dash line that closes a block
ScanEnds ==
    << <<>>,
       <<" Rotational constants (GHZ): 0.", " 4 1 0 0. 0. 3.">>,
       <<"", DashLine, "  ", " 4 1 0 0. 0. 3.", DashLine>>,
       <<DashLine, DashLine>> >>

\* the lines of a block: lines that parse before the first dash line and
\* among the headers, a short run of dashes among the data
ScanBlocks ==
    << <<" Standard orientation:", DashLine, " Center Number", DashLine,
         " 1 6 0 0. 0. 1.1", "", " 2 1 0 0. 0. 0.", DashLine>>,
       <<" Standard orientation: 7 7 0 0. 0. 2.5", " 7 7 0 0. 0. 2.5", "", DashLine,
         " Center Number", " 8 8 0 0. 0. 0.96", " Atomic 1 0 0. 0. 0.", DashLine,
         " 1 6 0 0. 0. 1.1", " -------", " 2 X 0 0. 0. 0.", " 3 1 0 0. 0. 0.", DashLine>>,
       <<" Standard orientation:", DashLine, " 1 6 0 0. 0. 1.1">> >>

ScanContents ==
    {Text(ScanBlocks[b] \o ScanEnds[e]) : b \in DOMAIN ScanBlocks, e \in DOMAIN ScanEnds}
        \cup {Text(<<" Entering Link 1", DashLine, " 1 6 0 0. 0. 1.1">>)}

\* lines_in_section, for a content with a match
LinesInSection(content) ==
    Split(SubSeq(content,
                 StdOrientMatchEnd(content, LastOf(StdOrientMatches(content))),
                 Len(content)),
          Newline)

ForLineInSection == "for line in lines_in_section"

\* lines 268-288: no match and the empty list returned, or the loop entered
StdEnter ==
    /\ op = "none"
    /\ IF StdOrientMatches(input) = {}
       THEN /\ op' = "_extract_from_standard_orientation"
            /\ output' = <<>>
       ELSE /\ op' = ForLineInSection
            /\ output' = output
    /\ lines_read' = 0
    /\ dash_line_count' = 0
    /\ coordinates_found' = <<>>
    /\ UNCHANGED <<input, files, debug, stderr, invoked, seen>>

\* the locals after one pass of the loop on raw_line
StdLocalsAfter(raw_line) ==
    StdScanStep([dash_line_count |-> dash_line_count,
                 coordinates_found |-> coordinates_found,
                 stopped |-> FALSE],
                raw_line)

\* one pass of the loop, lines 290-319
StdLine ==
    /\ op = ForLineInSection
    /\ lines_read < Len(LinesInSection(input))
    /\ lines_read' = lines_read + 1
    /\ dash_line_count' =
           StdLocalsAfter(LinesInSection(input)[lines_read + 1]).dash_line_count
    /\ coordinates_found' =
           StdLocalsAfter(LinesInSection(input)[lines_read + 1]).coordinates_found
    /\ op' = IF StdLocalsAfter(LinesInSection(input)[lines_read + 1]).stopped
             THEN "break" ELSE op
    /\ UNCHANGED <<input, output, files, debug, stderr, invoked, seen>>

\* lines 321-324, after break or after the last line
StdReturn ==
    /\ \/ op = "break"
       \/ op = ForLineInSection /\ lines_read = Len(LinesInSection(input))
    /\ op' = "_extract_from_standard_orientation"
    /\ output' = coordinates_found
    /\ UNCHANGED <<input, files, debug, stderr, invoked, seen>>
    /\ UNCHANGED scan

NextScan == StdEnter \/ StdLine \/ StdReturn

SpecScan == InitPure(ScanContents) /\ [][NextScan]_vars

-----------------------------------------------------------------------------
(* Properties of extract_coordinates on Gaussian logs *)

Finite(num, scale) == [kind |-> "finite", num |-> num, scale |-> scale]

Atom(symbol, x, y, z) == AtomCoordinate(Chars(symbol), x, y, z)

\* extract_coordinates has returned
ExtractReturned == op = "extract_coordinates"

\* extract_coordinates has returned for a readable .log file whose
\* termination check is true
NormalLogExtracted ==
    /\ ExtractReturned
    /\ PathSuffix(input) = LogSuffix
    /\ files[input].exists
    /\ CheckNormalTermination(files[input])

Invoked(method) == \E k \in 1..Len(invoked) : invoked[k] = method

\* C1: for a .log file whose termination check is true, whenever punch
\* extraction yields at least one coordinate, extract_coordinates returns
\* exactly the punch coordinates in punch order and does not invoke the
\* standard orientation strategy, also when punch entries were skipped as
\* malformed.
C1_PunchCoordinatesReturned ==
    (NormalLogExtracted /\ ExtractFromPunch(files[input].content) # <<>>)
        => /\ output = ExtractFromPunch(files[input].content)
           /\ ~Invoked("_extract_from_standard_orientation")

\* a normally terminated log that has standard orientation blocks and a punch
\* string O, 5 (malformed), h: the two well-formed entries are returned in
\* punch order
C1_Witness ==
    /\ NormalLogExtracted
    /\ StdOrientMatches(files[input].content) # {}
    /\ Contains(files[input].content, Chars("\\5,0.,0.,0.\\"))
    /\ output = <<Atom("O", Zero, Zero, Finite(11, 1)), Atom("h", Zero, Zero, Finite(-5, 1))>>
    /\ ~Invoked("_extract_from_standard_orientation")

\* C2: for a .log file whose termination check is true, if punch extraction
\* yields no coordinate, extract_coordinates returns exactly what the
\* standard orientation strategy returns for the same content.
C2_FallbackToStandardOrientation ==
    (NormalLogExtracted /\ ExtractFromPunch(files[input].content) = <<>>)
        => /\ output = ExtractFromStandardOrientation(files[input].content)
           /\ Invoked("_extract_from_standard_orientation")

\* a normally terminated log whose punch string is found and has an empty
\* coordinate section: the atoms of the last standard orientation block are
\* returned
C2_Witness ==
    /\ NormalLogExtracted
    /\ FindPunchString(files[input].content) # <<>>
    /\ Contains(files[input].content, Chars("\\T\\\\\\\\V=1"))
    /\ ExtractFromPunch(files[input].content) = <<>>
    /\ output = <<Atom("O", Zero, Zero, Finite(96, 2)), Atom("H", Zero, Zero, Zero)>>

\* C10: the list extract_coordinates returns is a function of the file's
\* content and extension: over any sequence of calls on the files, every
\* call on one path has returned the same ordered list, whatever calls on
\* other files came before and whether the debug output was on or off.
C10_ResultFunctionOfFile ==
    /\ \A p \in DOMAIN seen : \A a, b \in seen[p] : a[2] = b[2]
    /\ ExtractReturned => \E d \in BOOLEAN : <<d, output>> \in seen[input]

\* a path extracted with the debug output off and on, after a call on the
\* other file, with atoms returned
C10_Witness ==
    /\ ExtractReturned
    /\ output # <<>>
    /\ {<<FALSE, output>>, <<TRUE, output>>} \subseteq seen[input]
    /\ \E q \in DOMAIN seen : q # input /\ seen[q] # {}

-----------------------------------------------------------------------------
(* Properties of the extraction strategies *)

\* the lines of the content before index i
LinesBefore(content, i) == Split(SubSeq(content, 1, i - 1), Newline)

\* the content from index i on
TextFrom(content, i) == SubSeq(content, i, Len(content))

\* no coordinate of the list is what a line before index i parses to
NoneFromBefore(coordinates, content, i) ==
    \A k \in 1..Len(coordinates) :
        \A l \in 1..Len(LinesBefore(content, i)) :
            ParseCoordinateLine(LinesBefore(content, i)[l]) # <<coordinates[k]>>

StandardOrientationDone == op = "_extract_from_standard_orientation"

\* C3: standard orientation extraction uses only the text after the last
\* "standard orientation:" occurrence: its result is the result for the text
\* from that occurrence on, no coordinate of a line before that occurrence
\* is in it, also when the last block is truncated or yields nothing, and
\* with no occurrence the result is empty.
C3_LastStandardOrientationOnly ==
    StandardOrientationDone =>
        IF StdOrientMatches(input) = {} THEN output = <<>>
        ELSE /\ output = ExtractFromStandardOrientation(
                             TextFrom(input, LastOf(StdOrientMatches(input))))
             /\ NoneFromBefore(output, input, LastOf(StdOrientMatches(input)))

\* two blocks, the earlier one with a nitrogen line that parses: the atoms
\* of the last block alone are returned
C3_Witness ==
    /\ StandardOrientationDone
    /\ Cardinality(StdOrientMatches(input)) = 2
    /\ \E l \in 1..Len(LinesBefore(input, LastOf(StdOrientMatches(input)))) :
           ParseCoordinateLine(LinesBefore(input, LastOf(StdOrientMatches(input)))[l])
               = <<Atom("N", Zero, Zero, Finite(25, 1))>>
    /\ output = <<Atom("O", Zero, Zero, Finite(96, 2)), Atom("H", Zero, Zero, Zero)>>

MolproDone == op = "_extract_from_molpro_file"

\* the blocks of the content that yield a coordinate, by position
YieldingBlocks(content) ==
    {k \in 1..Len(GeomBlocks(content, 1)) :
        MolproBlockCoords(GeomBlocks(content, 1)[k]) # <<>>}

\* the MOLPRO strategy has run on two geometry blocks of which only the
\* second has a valid coordinate line
OnlySecondBlockValid ==
    /\ MolproDone
    /\ Len(GeomBlocks(input, 1)) = 2
    /\ YieldingBlocks(input) = {2}

\* C4 as stated: for a MOLPRO file with two geometry blocks where only the
\* second contains a valid coordinate line, the MOLPRO strategy returns an
\* empty list.
C4_EmptyWhenOnlySecondBlockValid == OnlySecondBlockValid => output = <<>>

\* C4, amended: for a MOLPRO file with two geometry blocks where only the
\* second contains a valid coordinate line, the MOLPRO strategy returns the
\* coordinates of the second block.
C4_SecondBlockReturned ==
    OnlySecondBlockValid =>
        /\ output = MolproBlockCoords(GeomBlocks(input, 1)[2])
        /\ output # <<>>

\* a first block of a comment, a unit, a dummy centre and an assignment,
\* then a block with O and H
C4_Witness ==
    /\ OnlySecondBlockValid
    /\ Contains(GeomBlocks(input, 1)[1], Chars("X1 0. 0. 0."))
    /\ output = <<Atom("O", Zero, Zero, Finite(96, 2)), Atom("H", Zero, Zero, Zero)>>

\* C5: the MOLPRO strategy returns exactly the coordinates of the first
\* geometry block, in document order, that yields at least one coordinate;
\* nothing of another block is mixed in, and the result is empty iff no block
\* yields a coordinate.
C5_FirstYieldingBlock ==
    MolproDone =>
        /\ output = <<>> <=> YieldingBlocks(input) = {}
        /\ YieldingBlocks(input) # {} =>
               output = MolproBlockCoords(GeomBlocks(input, 1)[FirstOf(YieldingBlocks(input))])

\* three blocks, the first with no coordinate line and two after it that
\* yield one: the second block's coordinate alone is returned
C5_Witness ==
    /\ MolproDone
    /\ Len(GeomBlocks(input, 1)) = 3
    /\ YieldingBlocks(input) = {2, 3}
    /\ output = <<Atom("C", Zero, Zero, Finite(11, 1))>>
    /\ MolproBlockCoords(GeomBlocks(input, 1)[3]) = <<Atom("N", Zero, Zero, Finite(25, 1))>>

PunchDone == op = "_extract_from_punch"

\* C6: punch extraction accepts an atom entry only if its element field is
\* purely alphabetic: no coordinate of its result has an element such as
\* "C-13".
C6_AlphabeticElementsOnly ==
    PunchDone => \A k \in 1..Len(output) : MatchesAlpha(output[k].element)

-----------------------------------------------------------------------------
(* Properties of the line classifiers *)

InputLineDone == op = "_parse_input_coordinate_line"

\* the token is the spelling of a finite real
FiniteToken(tok) == FloatOK(tok) /\ IsFinite(FloatValue(tok))

\* C7: _parse_input_coordinate_line returns a coordinate iff the line has at
\* least 4 whitespace-separated tokens, token 0 is purely alphabetic and
\* tokens 1, 2 and 3 each parse as a finite real, so that "nan" or "inf"
\* gives no match; on a match the element is token 0 and x, y, z are the
\* values of tokens 1-3.
C7_ElementLineFiniteReals ==
    InputLineDone =>
        LET toks == SplitWs(input)
            matched == /\ Len(toks) >= 4
                       /\ MatchesAlpha(toks[1])
                       /\ \A k \in 2..4 : FiniteToken(toks[k])
        IN  /\ output # <<>> <=> matched
            /\ matched => output = <<AtomCoordinate(toks[1], FloatValue(toks[2]),
                                                    FloatValue(toks[3]), FloatValue(toks[4]))>>

CenterLineDone == op = "_parse_coordinate_line"

\* the line "Q <number> Q <x> <y> <z>" made of tokens 1, 3, 4, 5 of a line
SameCenter(toks) ==
    Join(<<Chars("Q"), toks[2], Chars("Q"), toks[4], toks[5], toks[6]>>, <<" ">>)

\* C8: _parse_coordinate_line returns a coordinate iff the line has at least
\* 6 whitespace tokens, token 1 parses as an integer and tokens 3, 4, 5 parse
\* as reals; the element is the element table's symbol for token 1 when it
\* is in 1..118 and otherwise the decimal string of the integer (6 gives C,
\* 119 gives "119"); x, y, z are the values of tokens 3-5; the result does
\* not depend on token 0, token 2 or any token past index 5.
C8_CenterLine ==
    CenterLineDone =>
        LET toks == SplitWs(input)
            matched == /\ Len(toks) >= 6
                       /\ IntOK(toks[2])
                       /\ \A k \in 4..6 : FloatOK(toks[k])
        IN  /\ output # <<>> <=> matched
            /\ matched =>
                 /\ Len(output) = 1
                 /\ output[1].element =
                        IF IntValue(toks[2]) \in 1..118
                        THEN Chars(ElementSymbols[IntValue(toks[2])])
                        ELSE IntToStr(IntValue(toks[2]))
                 /\ toks[2] = Chars("6") => output[1].element = Chars("C")
                 /\ toks[2] = Chars("119") => output[1].element = Chars("119")
                 /\ output[1].x = FloatValue(toks[4])
                 /\ output[1].y = FloatValue(toks[5])
                 /\ output[1].z = FloatValue(toks[6])
                 /\ output = ParseCoordinateLine(SameCenter(toks))

\* a line of seven tokens with atomic number 119 and a non-numeric token 0
C8_Witness ==
    /\ CenterLineDone
    /\ Len(SplitWs(input)) = 7
    /\ SplitWs(input)[1] = Chars("X1")
    /\ SplitWs(input)[2] = Chars("119")
    /\ output = <<Atom("119", Finite(-5, 1), Zero, Finite(11, 1))>>

-----------------------------------------------------------------------------
(* Properties of the formula generator *)

FormulaDone == op = "generate_formula"

\* a symbol with its first letter in upper case and the others in lower case
Capitalized(symbol) ==
    [i \in 1..Len(symbol) |-> IF i = 1 THEN UpperC(symbol[i]) ELSE LowerC(symbol[i])]

\* the atoms of the list counted under the symbol
Tally(coordinates, symbol) ==
    Cardinality({i \in 1..Len(coordinates) : Capitalized(coordinates[i].element) = symbol})

TalliedSymbols(coordinates) ==
    {Capitalized(coordinates[i].element) : i \in 1..Len(coordinates)}

\* carbon first, hydrogen second, the others in alphabetical order
HillBefore(a, b) ==
    /\ a # b
    /\ \/ a = <<"C">>
       \/ a = <<"H">> /\ b # <<"C">>
       \/ a \notin {<<"C">>, <<"H">>} /\ b \notin {<<"C">>, <<"H">>} /\ StrLess(a, b)

\* the symbol at place k of the formula
HillSymbol(symbols, k) ==
    CHOOSE e \in symbols : Cardinality({a \in symbols : HillBefore(a, e)}) = k - 1

HillFormula(coordinates) ==
    Concat([k \in 1..Cardinality(TalliedSymbols(coordinates)) |->
              HillSymbol(TalliedSymbols(coordinates), k)
              \o (IF Tally(coordinates, HillSymbol(TalliedSymbols(coordinates), k)) = 1
                  THEN <<>>
                  ELSE NatToStr(Tally(coordinates,
                                      HillSymbol(TalliedSymbols(coordinates), k))))])

RECURSIVE SumOf(_, _)
SumOf(count, keys) ==
    IF keys = {} THEN 0
    ELSE count[CHOOSE k \in keys : TRUE]
         + SumOf(count, keys \ {CHOOSE k \in keys : TRUE})

Swapped(coordinates, i, j) ==
    [coordinates EXCEPT ![i] = coordinates[j], ![j] = coordinates[i]]

\* C9: generate_formula tallies the atoms per case-normalized symbol and
\* renders each distinct symbol once, C first, H second, the others in
\* alphabetical order, each followed by its count, a count of 1 rendered as
\* nothing; the counts sum to the length of the list, the result does not
\* depend on the order of the list, and the empty list gives the empty
\* string.
C9_HillFormula ==
    FormulaDone =>
        /\ output = HillFormula(input)
        /\ SumOf(AtomCount(input), DOMAIN AtomCount(input)) = Len(input)
        /\ \A i, j \in 1..Len(input) : GenerateFormula(Swapped(input, i, j)) = output
        /\ input = <<>> => output = <<>>

\* O, H, h gives H2O
C9_Witness ==
    /\ FormulaDone
    /\ [i \in 1..Len(input) |-> input[i].element] = <<Chars("O"), Chars("H"), Chars("h")>>
    /\ output = Chars("H2O")

-----------------------------------------------------------------------------
(* Properties of extract_coordinates: termination, file type, failures *)

\* extract_coordinates has returned for a readable .log file whose
\* termination check is false
AbnormalLogExtracted ==
    /\ ExtractReturned
    /\ PathSuffix(input) = LogSuffix
    /\ files[input].exists
    /\ ~CheckNormalTermination(files[input])

\* C11: for a .log file whose termination check is false, also when the
\* check fails with an I/O error, extract_coordinates does not consult the
\* punch string: it returns what the standard orientation strategy returns
\* for the content, even when the content holds a punch string with valid
\* coordinates.
C11_StandardOrientationWhenNotTerminated ==
    AbnormalLogExtracted =>
        /\ output = ExtractFromStandardOrientation(files[input].content)
        /\ ~Invoked("_extract_from_punch")
        /\ ~Invoked("_find_punch_string")

\* a log that ends with "Normal termination" and holds a punch string with
\* C and H, whose termination check fails with an I/O error: the atoms of
\* the standard orientation block are returned
C11_Witness ==
    /\ AbnormalLogExtracted
    /\ ~files[input].tailOK
    /\ ExtractFromPunch(files[input].content)
           = <<Atom("C", Zero, Zero, Finite(11, 1)), Atom("H", Zero, Zero, Zero)>>
    /\ output = <<Atom("119", Zero, Zero, Finite(11, 1)), Atom("H", Zero, Zero, Zero)>>

-----------------------------------------------------------------------------
(* Properties of the Gaussian input strategy *)

InputFileDone == op = "_extract_from_input_file"

\* an optionally signed run of digits
SignedDigits(tok) ==
    /\ tok # <<>>
    /\ IF tok[1] \in {"+", "-"}
       THEN Len(tok) > 1 /\ \A k \in 2..Len(tok) : IsDigit(tok[k])
       ELSE \A k \in 1..Len(tok) : IsDigit(tok[k])

\* the lines of the content that hold exactly two optionally signed integers
ChargeLines(content) ==
    {i \in 1..Len(Split(content, Newline)) :
        /\ Len(SplitWs(Split(content, Newline)[i])) = 2
        /\ \A k \in 1..2 : SignedDigits(SplitWs(Split(content, Newline)[i])[k])}

\* line i of the content parses as an element line
ElementLineAt(content, i) ==
    /\ i <= Len(Split(content, Newline))
    /\ ParseInputCoordinateLine(Split(content, Newline)[i]) # <<>>

\* the last line of the maximal run of element lines that starts at line
\* first (first - 1 when line first is none)
RunEnd(content, first) ==
    LastOf({e \in (first - 1)..Len(Split(content, Newline)) :
               \A k \in first..e : ElementLineAt(content, k)})

\* the coordinates of lines first..last of the content
ElementLines(content, first, last) ==
    [k \in 1..(last - first + 1) |->
        ParseInputCoordinateLine(Split(content, Newline)[first + k - 1])[1]]

\* C12: the Gaussian input strategy returns an empty list when no line is a
\* charge and multiplicity line; otherwise it returns, in file order, exactly
\* the maximal run of consecutive lines that parse as element lines starting
\* right after the first charge and multiplicity line; later charge and
\* multiplicity lines and later blocks contribute nothing.
C12_RunAfterFirstChargeLine ==
    InputFileDone =>
        IF ChargeLines(input) = {} THEN output = <<>>
        ELSE output = ElementLines(input, FirstOf(ChargeLines(input)) + 1,
                                   RunEnd(input, FirstOf(ChargeLines(input)) + 1))

\* two charge and multiplicity lines, each followed by a block: the first
\* block alone is returned
C12_Witness ==
    /\ InputFileDone
    /\ Cardinality(ChargeLines(input)) = 2
    /\ ElementLineAt(input, LastOf(ChargeLines(input)) + 1)
    /\ output = <<Atom("C", Zero, Zero, Finite(11, 1))>>

-----------------------------------------------------------------------------
(* Properties of the file type detection *)

FileTypeDone == op = "_detect_file_type"

\* the part of the path after its last '/'
FinalName(path) ==
    SubSeq(path, LastOf({0} \cup {i \in 1..Len(path) : path[i] = "/"}) + 1, Len(path))

\* the extension of a file name: its ending from the last '.', when
\* something stands before that '.' and after it
Extension(name) ==
    IF \E i \in 2..(Len(name) - 1) : name[i] = "." /\ \A k \in (i + 1)..Len(name) : name[k] # "."
    THEN SubSeq(name, LastOf({i \in 1..Len(name) : name[i] = "."}), Len(name))
    ELSE <<>>

FileTypes == {"gaussian_input", "gaussian_log", "molpro", "unknown"}

\* C13: the file type is a function of the path's final extension compared
\* without regard to case: .com gives gaussian_input, .log gives
\* gaussian_log, .in and .out give molpro, anything else, no extension
\* included, gives unknown; every path gets exactly one type.
C13_TypeByExtension ==
    FileTypeDone =>
        /\ output \in FileTypes
        /\ output = "gaussian_input" <=> Lower(Extension(FinalName(input))) = Chars(".com")
        /\ output = "gaussian_log" <=> Lower(Extension(FinalName(input))) = Chars(".log")
        /\ output = "molpro" <=>
               Lower(Extension(FinalName(input))) \in {Chars(".in"), Chars(".out")}

\* a path with .com and .out in its directories, .log inside the file name
\* and the extension .OUT
C13_Witness ==
    /\ FileTypeDone
    /\ input = Chars("x.com/b.out/job.log.OUT")
    /\ output = "molpro"

-----------------------------------------------------------------------------
(* Properties of extract_coordinates on files of unknown type *)

UnknownExtracted == ExtractReturned /\ DetectFileType(input) = "unknown"

StrategyMethods ==
    {"_extract_from_input_file", "_extract_from_punch", "_find_punch_string",
     "_extract_from_standard_orientation", "_extract_from_molpro_file",
     "_check_normal_termination"}

NoStrategyInvoked == \A k \in 1..Len(invoked) : invoked[k] \notin StrategyMethods

Warned ==
    \E k \in 1..Len(stderr) : stderr[k] = "Warning: Unsupported or unrecognized file type"

\* C14 as stated: for every path of unknown type, extract_coordinates returns
\* an empty list, emits the unsupported file type warning and dispatches to
\* no strategy, whether or not the file can be read.
C14_UnknownAlwaysWarned ==
    UnknownExtracted => output = <<>> /\ Warned /\ NoStrategyInvoked

\* C14, amended: for every path of unknown type, extract_coordinates returns
\* an empty list and dispatches to no strategy, whether or not the file can
\* be read; it emits the unsupported file type warning when the file can be
\* read and no warning when the read fails.
C14_UnknownWarnedWhenRead ==
    UnknownExtracted =>
        /\ output = <<>>
        /\ NoStrategyInvoked
        /\ Warned <=> files[input].exists

\* a readable file of unknown type whose content is a Gaussian input with
\* atoms: nothing is returned and the warning is written
C14_Witness ==
    /\ UnknownExtracted
    /\ files[input].exists
    /\ ExtractFromInputFile(files[input].content) # <<>>
    /\ output = <<>>
    /\ Warned
    /\ NoStrategyInvoked

-----------------------------------------------------------------------------
(* Properties of a batch run *)

\* report k is that of file k of the batch: the list extract_coordinates
\* returns for it, which is empty when the file cannot be read
ReportOf(k) ==
    /\ output[k].file_path = input[k]
    /\ output[k].coordinates = ExtractCoordinates(input[k], files[input[k]], debug).result
    /\ output[k].atoms = Len(output[k].coordinates)
    /\ ~files[input[k]].exists => output[k].coordinates = <<>>

AllReported == op = "exit 0" /\ Len(output) = Len(input)

\* C15: extract_coordinates never aborts: for every path and content of a
\* batch it returns a list, which is empty on read failure, and a file that
\* yields nothing or cannot be read does not prevent any remaining file from
\* being extracted and reported: main reports every file and returns.
C15_BatchNeverAborts ==
    /\ [](\A k \in 1..Len(output) : ReportOf(k))
    /\ <>AllReported

\* a batch of a file that cannot be read and a log after it: both are
\* reported, the log with its atoms
C15_Witness ==
    /\ AllReported
    /\ Len(output) = 2
    /\ ~files[input[1]].exists
    /\ output[1].atoms = 0
    /\ output[2].atoms = 2
    /\ output[2].formula = Chars("CH")

-----------------------------------------------------------------------------
(* Properties of the element symbols extract_coordinates returns *)

\* letters only, the first in upper case and the others in lower case
TitleCased(symbol) ==
    /\ symbol # <<>>
    /\ IsUpper(symbol[1])
    /\ \A i \in 2..Len(symbol) : IsLower(symbol[i])

\* letters, or letters followed by '-' and letters or digits
LettersWithTag(symbol) ==
    /\ symbol # <<>>
    /\ IF \A i \in 1..Len(symbol) : symbol[i] # "-"
       THEN \A i \in 1..Len(symbol) : IsAlpha(symbol[i])
       ELSE \E h \in 2..(Len(symbol) - 1) :
                /\ symbol[h] = "-"
                /\ \A i \in 1..(h - 1) : IsAlpha(symbol[i])
                /\ \A i \in (h + 1)..Len(symbol) : IsAlpha(symbol[i]) \/ IsDigit(symbol[i])

\* a symbol of the element table, or the decimal string of an integer
TableSymbolOrNumber(symbol) ==
    \/ \E n \in 1..Len(ElementSymbols) : symbol = Chars(ElementSymbols[n])
    \/ SignedDigits(symbol)

\* C16 as stated: every AtomCoordinate in a list extract_coordinates returns
\* has an element symbol that is a non-empty purely alphabetic string, in
\* title case when it has several letters and in upper case when it has one.
C16_ElementsNormalized ==
    ExtractReturned => \A k \in 1..Len(output) : TitleCased(output[k].element)

\* C16, amended: every AtomCoordinate in a list extract_coordinates returns
\* has a non-empty element symbol, returned as the source gives it, with no
\* case normalization: purely alphabetic from the Gaussian input and MOLPRO
\* strategies, alphabetic and optionally followed by '-' and letters or
\* digits from the punch string, and from a standard orientation block the
\* element table's symbol or the decimal string of the atomic number.
C16_ElementsAsWritten ==
    ExtractReturned =>
        \A k \in 1..Len(output) :
            /\ output[k].element # <<>>
            /\ Invoked("_extract_from_input_file") \/ Invoked("_extract_from_molpro_file")
                   => /\ \A i \in 1..Len(output[k].element) : IsAlpha(output[k].element[i])
                      /\ Contains(files[input].content, output[k].element)
            /\ Invoked("_extract_from_punch") /\ ~Invoked("_extract_from_standard_orientation")
                   => /\ LettersWithTag(output[k].element)
                      /\ Contains(files[input].content, output[k].element)
            /\ Invoked("_extract_from_standard_orientation")
                   => TableSymbolOrNumber(output[k].element)

\* a punch string with the entry h,0.,0.,-0.5: the symbol is returned in
\* lower case
C16_Witness ==
    /\ ExtractReturned
    /\ Invoked("_extract_from_punch")
    /\ Contains(files[input].content, Chars("\\h,0.,0.,-0.5\\"))
    /\ Len(output) = 2
    /\ output[2].element = Chars("h")

-----------------------------------------------------------------------------
(* Properties of the strategies on malformed lines and entries *)

\* the element lines among lines[i], i in where, in their order
ElementLinesAmong(lines, where) ==
    [k \in 1..Cardinality({i \in where : ParseInputCoordinateLine(lines[i]) # <<>>}) |->
        ParseInputCoordinateLine(
            lines[SortedSeq({i \in where : ParseInputCoordinateLine(lines[i]) # <<>>})[k]])[1]]

\* the centre lines among lines[i], i in where, in their order
CenterLinesAmong(lines, where) ==
    [k \in 1..Cardinality({i \in where : ParseCoordinateLine(lines[i]) # <<>>}) |->
        ParseCoordinateLine(
            lines[SortedSeq({i \in where : ParseCoordinateLine(lines[i]) # <<>>})[k]])[1]]

\* the well-formed entries among entries[i], in their order
EntriesAmong(entries) ==
    [k \in 1..Cardinality({i \in 1..Len(entries) : PunchEntry(entries[i]) # <<>>}) |->
        PunchEntry(
            entries[SortedSeq({i \in 1..Len(entries) : PunchEntry(entries[i]) # <<>>})[k]])[1]]

\* the lines of a MOLPRO geometry block that are not assignments
MolproBlockLines(block) ==
    {i \in 1..Len(Split(block, Newline)) : ~Contains(Split(block, Newline)[i], <<"=">>)}

\* every valid line of the geometry block that is read is in the result
MolproSkipsMalformed ==
    YieldingBlocks(input) # {} =>
        output = ElementLinesAmong(
                     Split(GeomBlocks(input, 1)[FirstOf(YieldingBlocks(input))], Newline),
                     MolproBlockLines(GeomBlocks(input, 1)[FirstOf(YieldingBlocks(input))]))

\* the lines of the section after the last "standard orientation:"
SectionLines(content) ==
    Split(TextFrom(content, StdOrientMatchEnd(content, LastOf(StdOrientMatches(content)))),
          Newline)

\* the data zone: the lines with exactly two dash lines before them
DataZone(lines) ==
    {i \in 1..Len(lines) :
        /\ ~IsDashLine(Strip(lines[i]))
        /\ Cardinality({d \in 1..(i - 1) : IsDashLine(Strip(lines[d]))}) = 2}

\* every valid line of the data zone is in the result
StandardOrientationSkipsMalformed ==
    StdOrientMatches(input) # {} =>
        output = CenterLinesAmong(SectionLines(input), DataZone(SectionLines(input)))

\* the atom entries of the coordinate section of a punch string
SectionEntries(punch_string) ==
    Split(Split(RemoveSpace(punch_string), DoubleBackslash)[CoordinateSection], Backslash)

\* every valid entry of the coordinate section is in the result
PunchSkipsMalformed ==
    (/\ FindPunchString(input) # <<>>
     /\ Len(Split(RemoveSpace(FindPunchString(input)[1]), DoubleBackslash))
            >= CoordinateSection)
        => output = EntriesAmong(SectionEntries(FindPunchString(input)[1]))

\* the lines of a Gaussian input after its first charge and multiplicity
\* line and before the first blank line after that
InputBlock(content) ==
    {i \in (FirstOf(ChargeLines(content)) + 1)..Len(Split(content, Newline)) :
        \A k \in (FirstOf(ChargeLines(content)) + 1)..i :
            Strip(Split(content, Newline)[k]) # <<>>}

\* every valid line of the Gaussian input block is in the result
InputSkipsMalformed ==
    ChargeLines(input) # {} =>
        output = ElementLinesAmong(Split(input, Newline), InputBlock(input))

\* the first malformed line of the Gaussian input block ends it
InputStopsAtMalformed ==
    ChargeLines(input) # {} =>
        output = ElementLines(input, FirstOf(ChargeLines(input)) + 1,
                              RunEnd(input, FirstOf(ChargeLines(input)) + 1))

\* C17 as stated: in every strategy (Gaussian input block, punch atom
\* entries, standard orientation data zone, MOLPRO geometry block) a line or
\* entry that fails validation is skipped individually and every valid line
\* or entry after it in the same block is still in the result.
C17_MalformedSkippedEverywhere ==
    /\ InputFileDone => InputSkipsMalformed
    /\ PunchDone => PunchSkipsMalformed
    /\ StandardOrientationDone => StandardOrientationSkipsMalformed
    /\ MolproDone => MolproSkipsMalformed

\* C17, amended: in the punch atom entries, the standard orientation data
\* zone and the MOLPRO geometry block a line or entry that fails validation
\* is skipped individually and every valid line or entry after it in the
\* same block is still in the result; in the Gaussian input block the first
\* non-blank line that fails validation ends the block.
C17_MalformedSkippedButInput ==
    /\ InputFileDone => InputStopsAtMalformed
    /\ PunchDone => PunchSkipsMalformed
    /\ StandardOrientationDone => StandardOrientationSkipsMalformed
    /\ MolproDone => MolproSkipsMalformed

\* a MOLPRO geometry block with a line of three fields and a comment between
\* two valid lines: both valid lines are returned
C17_Witness ==
    /\ MolproDone
    /\ Contains(input, Chars("\nH 0. 0\n* note\nH 0. 0. 0.\n"))
    /\ output = <<Atom("C", Zero, Zero, Finite(11, 1)), Atom("H", Zero, Zero, Zero)>>

-----------------------------------------------------------------------------
(* Properties of punch extraction *)

\* an entry of four comma-separated fields: an alphabetic element and three
\* reals
StrictEntry(entry) ==
    /\ Len(Split(entry, <<",">>)) = 4
    /\ MatchesAlpha(Strip(Split(entry, <<",">>)[1]))
    /\ \A f \in 2..4 : FloatOK(Split(entry, <<",">>)[f])

EntryCoordinate(entry) ==
    AtomCoordinate(Strip(Split(entry, <<",">>)[1]),
                   FloatValue(Split(entry, <<",">>)[2]),
                   FloatValue(Split(entry, <<",">>)[3]),
                   FloatValue(Split(entry, <<",">>)[4]))

\* the coordinates of the strict entries among entries, in their order
StrictEntriesAmong(entries) ==
    [k \in 1..Cardinality({i \in 1..Len(entries) : StrictEntry(entries[i])}) |->
        EntryCoordinate(
            entries[SortedSeq({i \in 1..Len(entries) : StrictEntry(entries[i])})[k]])]

\* C18: punch extraction removes all whitespace from the punch string,
\* splits it on the double backslash, returns nothing when there are fewer
\* than 4 sections, and otherwise returns, in their order within section
\* index 3, exactly the backslash-separated entries of four comma-separated
\* fields with an alphabetic element and three parseable reals.
C18_ExactlyTheStrictEntries ==
    (PunchDone /\ FindPunchString(input) # <<>>) =>
        IF Len(Split(RemoveSpace(FindPunchString(input)[1]), DoubleBackslash))
               < CoordinateSection
        THEN output = <<>>
        ELSE output = StrictEntriesAmong(SectionEntries(FindPunchString(input)[1]))

-----------------------------------------------------------------------------
(* Properties of the punch string *)

PunchStringDone == op = "_find_punch_string"

\* the lines of the content before the first archive marker
MarkerLines(content) ==
    Split(SubSeq(content, 1, Find(content, PunchMarker) - 1), Newline)

\* the lines with a backslash
BackslashLines(lines) == {i \in 1..Len(lines) : Contains(lines[i], Backslash)}

\* the top of the run of backslash lines that ends at the lowest of them
RunTop(lines) ==
    FirstOf({j \in BackslashLines(lines) :
                \A k \in j..LastOf(BackslashLines(lines)) : k \in BackslashLines(lines)})

\* the lines of that run, top to bottom, as they are in the content
RunVerbatim(lines) ==
    [k \in 1..(LastOf(BackslashLines(lines)) - RunTop(lines) + 1) |->
        lines[RunTop(lines) + k - 1]]

\* the lines of that run, top to bottom, without the whitespace around each
RunStripped(lines) ==
    [k \in 1..(LastOf(BackslashLines(lines)) - RunTop(lines) + 1) |->
        Strip(lines[RunTop(lines) + k - 1])]

NoPunchString(content) ==
    \/ ~Contains(content, PunchMarker)
    \/ BackslashLines(MarkerLines(content)) = {}

\* C19 as stated: no punch string when the archive marker is absent or no
\* line before it has a backslash; otherwise the punch string is the lowest
\* maximal run of backslash lines before the marker, top to bottom,
\* concatenated verbatim with no separator.
C19_RunConcatenatedVerbatim ==
    PunchStringDone =>
        IF NoPunchString(input) THEN output = <<>>
        ELSE output = <<Concat(RunVerbatim(MarkerLines(input)))>>

\* C19, amended: no punch string when the archive marker is absent or no
\* line before it has a backslash; otherwise the punch string is the lowest
\* maximal run of backslash lines before the marker, top to bottom, each
\* without its leading and trailing whitespace, concatenated with no
\* separator; the whitespace inside a line is kept.
C19_RunConcatenatedStripped ==
    PunchStringDone =>
        IF NoPunchString(input) THEN output = <<>>
        ELSE output = <<Concat(RunStripped(MarkerLines(input)))>>

\* two punch lines below a plain line and a backslash line, above a plain
\* line and a blank line: the two lines only, joined without the spaces
\* around them
C19_Witness ==
    /\ PunchStringDone
    /\ Contains(input, Chars(" text\\above\n plain\n 1\\1"))
    /\ Contains(input, Chars("\\\\@ \n end of entry\n\n The archive"))
    /\ output = <<Chars("1\\1\\GINC\\\\#HF\\\\T\\\\0,1\\C,0.,0.,1.1\\H,0., 0.,0.\\\\@")>>

-----------------------------------------------------------------------------
(* Properties of the termination check *)

TerminationDone == op = "_check_normal_termination"

\* the final min(1000, size) bytes of a content
FinalBytes(content) ==
    [k \in 1..(IF Len(content) < TailBytes THEN Len(content) ELSE TailBytes) |->
        content[Len(content)
                  - (IF Len(content) < TailBytes THEN Len(content) ELSE TailBytes) + k]]

\* the lines that are not blank
NonBlankLines(lines) == {i \in 1..Len(lines) : Strip(lines[i]) # <<>>}

\* the last line that is not blank has the text
LastNonBlankTerminated(lines) ==
    /\ NonBlankLines(lines) # {}
    /\ Contains(lines[LastOf(NonBlankLines(lines))], NormalTerminationText)

-----------------------------------------------------------------------------
(* Properties of the loop of _extract_from_standard_orientation *)

\* the loop is running
Scanning == op = ForLineInSection

\* the line the loop takes in this step, trimmed
LineTaken == Strip(LinesInSection(input)[lines_read + 1])

\* a structural delimiter: at least 5 dashes in a row in a trimmed line of
\* more than 20 characters
Delimiter(line) ==
    /\ Len(line) > DashLineMinLen
    /\ \E i \in 1..(Len(line) - 4) : \A k \in 0..4 : line[i + k] = "-"

\* the loop takes a line in this step
TakesLine == Scanning /\ lines_read' = lines_read + 1

\* the loop run line by line returns what the strategy returns
ScanAgrees ==
    StandardOrientationDone => output = ExtractFromStandardOrientation(input)

\* what a pass of the loop does to the counter and to the list, as C21 has it
CountsAndAppends(line) ==
    /\ dash_line_count' =
           IF Delimiter(line) THEN dash_line_count + 1 ELSE dash_line_count
    /\ coordinates_found' =
           IF /\ line # <<>>
              /\ ~Delimiter(line)
              /\ dash_line_count = 2
              /\ ParseCoordinateLine(line) # <<>>
           THEN Append(coordinates_found, ParseCoordinateLine(line)[1])
           ELSE coordinates_found

\* C21: in the standard orientation scan the delimiter counter starts at 0
\* and changes only on a structural delimiter line, by exactly +1; blank
\* lines never change it; a coordinate is appended, in the order met, only
\* for a non-blank line that is no delimiter, read while the counter is
\* exactly 2, that _parse_coordinate_line accepts; lines read at counter 0
\* or 1 never contribute.
C21_CounterAndDataZone ==
    /\ dash_line_count = 0
    /\ [][IF TakesLine THEN CountsAndAppends(LineTaken)
          ELSE /\ dash_line_count' = dash_line_count
               /\ coordinates_found' = coordinates_found]_vars

\* a section with a line that parses before the first dash line and one
\* among the headers: the list holds the carbon of the data zone alone, and
\* a short run of dashes and a malformed line have been read at counter 2
C21_Witness ==
    /\ Scanning
    /\ Contains(input, Chars(" 7 7 0 0. 0. 2.5\n\n"))
    /\ Contains(input, Chars(" Center Number\n 8 8 0 0. 0. 0.96\n"))
    /\ dash_line_count = 2
    /\ lines_read = 11
    /\ coordinates_found = <<Atom("C", Zero, Zero, Finite(11, 1))>>

\* the loop has been left, by break or by the return
ScanEnded == op \in {"break", "_extract_from_standard_orientation"}

\* C22 as stated: reaching the third structural delimiter line ends the scan
\* at once: from then on no line is read, the counter never exceeds 3 and no
\* coordinate is appended.
C22_EndsAtThirdDelimiter ==
    /\ [](dash_line_count <= 3)
    /\ [][dash_line_count >= 3 =>
             /\ lines_read' = lines_read
             /\ dash_line_count' = dash_line_count
             /\ coordinates_found' = coordinates_found]_vars

\* a pass of the loop after the third delimiter: nothing is appended, a
\* further delimiter is counted, a blank line is passed over and any other
\* line ends the scan
PassAfterThird(line) ==
    /\ coordinates_found' = coordinates_found
    /\ dash_line_count' =
           IF Delimiter(line) THEN dash_line_count + 1 ELSE dash_line_count
    /\ op' = IF line # <<>> /\ ~Delimiter(line) THEN "break" ELSE op

\* C22, amended: after the third structural delimiter line no coordinate is
\* appended, but the scan goes on reading: blank lines are passed over, each
\* further delimiter line raises the counter above 3, and the scan ends at
\* the first line after the third delimiter that is neither blank nor a
\* delimiter, or at the end of the section; it never ends by break before
\* the third delimiter, and once it has ended nothing more is read and the
\* list returned is the list as it was at the third delimiter.
C22_EndsAfterThirdDelimiter ==
    /\ [][(Scanning /\ dash_line_count >= 3) =>
             IF TakesLine THEN PassAfterThird(LineTaken)
             ELSE /\ lines_read = Len(LinesInSection(input))
                  /\ output' = coordinates_found
                  /\ UNCHANGED scan]_vars
    /\ [][(Scanning /\ dash_line_count < 3) => op' # "break"]_vars
    /\ [][ScanEnded => (UNCHANGED scan /\ output' = coordinates_found)]_vars

\* a blank line, a fourth delimiter and a line that parses after the third
\* delimiter: the counter has reached 4 and the two atoms of the data zone
\* are returned
C22_Witness ==
    /\ StandardOrientationDone
    /\ Contains(input, Chars(" 4 1 0 0. 0. 3."))
    /\ dash_line_count = 4
    /\ lines_read = 12
    /\ output = <<Atom("C", Zero, Zero, Finite(11, 1)), Atom("H", Zero, Zero, Zero)>>

-----------------------------------------------------------------------------
(* Properties of extract_coordinates on logs of several jobs *)

\* the places of the archive marker
MarkerPlaces(content) == {i \in 1..Len(content) : StartsWithAt(content, i, PunchMarker)}

MultiJob(content) == Cardinality(MarkerPlaces(content)) >= 2

\* the archive entry before the first marker, as one string
FirstArchive(content) == Concat(RunStripped(MarkerLines(content)))

\* the coordinates of the archive entry before the first marker
FirstJobCoords(content) ==
    IF NoPunchString(content) THEN <<>>
    ELSE IF Len(Split(RemoveSpace(FirstArchive(content)), DoubleBackslash))
                < CoordinateSection
    THEN <<>>
    ELSE EntriesAmong(SectionEntries(FirstArchive(content)))

\* the coordinates of the data zone after the last "standard orientation:"
LastBlockCoords(content) ==
    IF StdOrientMatches(content) = {} THEN <<>>
    ELSE CenterLinesAmong(SectionLines(content), DataZone(SectionLines(content)))

\* C23: for a log with the archive marker more than once, the punch string
\* is taken from the text before the first marker, so on the normal
\* termination path the coordinates returned are those of the first archived
\* job (when it has any), while the standard orientation path, taken on the
\* same content when the termination check fails or the first archive
\* yields nothing, returns the geometry of the last block.
C23_FirstArchiveLastBlock ==
    /\ (NormalLogExtracted /\ MultiJob(files[input].content)) =>
           output = IF FirstJobCoords(files[input].content) # <<>>
                    THEN FirstJobCoords(files[input].content)
                    ELSE LastBlockCoords(files[input].content)
    /\ (AbnormalLogExtracted /\ MultiJob(files[input].content)) =>
           output = LastBlockCoords(files[input].content)

\* a normally terminated log of two jobs: the nitrogen of the first archive
\* is returned, while the last block of the same content, which the other
\* path returns, holds oxygen and hydrogen
C23_Witness ==
    /\ NormalLogExtracted
    /\ MultiJob(files[input].content)
    /\ output = <<Atom("N", Zero, Zero, Finite(25, 1))>>
    /\ LastBlockCoords(files[input].content)
           = <<Atom("O", Zero, Zero, Finite(96, 2)), Atom("H", Zero, Zero, Zero)>>

=============================================================================
